---------------------------- MODULE Spec2Model ----------------------------
(***************************************************************************)
(* Lead detection and tracking engine of the WhatsApp lead bot (bot.js):   *)
(* the messages.upsert handler, the AI lead detector's classification      *)
(* path, the lead store, the outbound message queue and the lead tracker.  *)
(*                                                                         *)
(* Texts are sequences of tokens.  A token carries its literal, its kind   *)
(* (letters, digits, mixed), its numeric value, a trailing 'k' and the     *)
(* separator that follows it in the text, so that the regular expressions  *)
(* of the source are evaluated on what they can see: a keyword, the        *)
(* separators (blank, colon) after it, and the class of what follows.      *)
(* Keywords are written in lower case (all patterns carry the /i flag).    *)
(***************************************************************************)
EXTENDS Integers, Sequences, FiniteSets, TLC

(***************************************************************************)
(* Bounds of the model.                                                    *)
(***************************************************************************)
MaxBatchLen == 2

(***************************************************************************)
(* Tokens and texts.                                                       *)
(*   sep = "sp"    one blank: the separator class and the blank class      *)
(*   sep = "colon" a colon and a blank: the separator class                *)
(*   sep = "comma" a comma and a blank: matched by none of the patterns    *)
(*   sep = "end"   end of the text                                         *)
(***************************************************************************)
Tok(w, kind, n, len, k, sep) ==
    [w |-> w, kind |-> kind, n |-> n, len |-> len, k |-> k, sep |-> sep]

\* a token of letters; the vocabulary has no word of ten or more letters, and
\* no word contains a keyword of another pattern as a substring
Word(w, sep) == Tok(w, "word", 0, 0, FALSE, sep)

\* a token of len digits with value n (n = 0 for the digit strings that stand
\* for phone numbers, whose value is never computed)
Num(w, n, len, sep) == Tok(w, "num", n, len, FALSE, sep)

\* a number directly followed by the letter k
NumK(w, n, len, sep) == Tok(w, "num", n, len, TRUE, sep)

\* "Name: Ramesh, Phone: 9876543210, Loan amount 150000, urgent"
TextScenario ==
    << Word("name", "colon"), Word("Ramesh", "comma"),
       Word("phone", "colon"), Num("9876543210", 0, 10, "comma"),
       Word("loan", "sp"), Word("amount", "sp"), Num("150000", 150000, 6, "comma"),
       Word("urgent", "end") >>

\* "phone 9876543210 documents pending"
TextFollowUp ==
    << Word("phone", "sp"), Num("9876543210", 0, 10, "sp"),
       Word("documents", "sp"), Word("pending", "end") >>

\* "Good morning team"
TextGreeting == << Word("good", "sp"), Word("morning", "sp"), Word("team", "end") >>

\* "mobile: 9123456780, amount 60000"
TextOther ==
    << Word("mobile", "colon"), Num("9123456780", 0, 10, "comma"),
       Word("amount", "sp"), Num("60000", 60000, 5, "end") >>

\* "ok thanks"
TextThanks == << Word("ok", "sp"), Word("thanks", "end") >>

\* a message without any text
TextEmpty == << >>

\* "loan amount 60000, for surgery, urgent": a lead without an identifier
TextWalkIn ==
    << Word("loan", "sp"), Word("amount", "sp"), Num("60000", 60000, 5, "comma"),
       Word("for", "sp"), Word("surgery", "comma"), Word("urgent", "end") >>

\* "loan amount 60000, for surgery, urgent today": six of its seven words
\* are the words of the message before
TextWalkInAgain ==
    << Word("loan", "sp"), Word("amount", "sp"), Num("60000", 60000, 5, "comma"),
       Word("for", "sp"), Word("surgery", "comma"), Word("urgent", "sp"),
       Word("today", "end") >>

SepOk(tok) == tok.sep \in {"sp", "colon"}

\* the run of letter tokens starting at j that [a-zA-Z\s]+ captures: it
\* extends over blanks and stops at a digit, a colon, a comma or the end
RECURSIVE WordsRun(_, _)
WordsRun(text, j) ==
    IF j > Len(text) \/ text[j].kind # "word" THEN << >>
    ELSE IF text[j].sep = "sp" THEN << text[j].w >> \o WordsRun(text, j + 1)
    ELSE << text[j].w >>

\* the leftmost of the positions where a pattern matches, 0 when there is
\* none (String.match returns the leftmost match, or null)
FirstPos(hits) ==
    IF hits = { } THEN 0 ELSE CHOOSE i \in hits : \A j \in hits : i <= j

\* an optional value: << >> is absent (undefined), << v >> is present
None == << >>

Some(v) == << v >>

(***************************************************************************)
(* Confidence values are IEEE-754 doubles accumulated with +=.  A value is *)
(* encoded as 100 times its value plus its distance, in units of the last  *)
(* place, from the double literal of that many hundredths, so that         *)
(* 30 is 0.3 and 31 is 0.30000000000000004 (the sum 0.2 + 0.1).  The order *)
(* of the encoding is the order of the doubles.                            *)
(***************************************************************************)
FloatAdd(c, w) ==
    CASE c = 20 /\ w = 10 -> 31
      [] c = 31 /\ w = 10 -> 40
      [] c = 70 /\ w = 10 -> 79
      [] c = 109 /\ w = 10 -> 120
      [] OTHER -> c + w

(***************************************************************************)
(* AILeadDetector.quickPatterns and quickPatternCheck.                     *)
(***************************************************************************)
AmountKw == {"loan", "amount", "limit", "emi"}

NameKw == {"name", "patient", "cx", "customer", "mr", "mrs", "ms", "dr"}

PhoneKw == {"phone", "mobile", "number", "contact"}

PanKw == {"pan", "pancard"}

UrgencyKw == {"asap", "urgent", "immediate", "now", "today", "waiting"}

LocationKw == {"location", "area", "branch"}

LoanKw == {"loan", "finance", "credit", "bajaj"}

PurposeKw == {"purpose", "for", "need"}

\* keyword, separators, then at least one digit
AmountAt(text, i) ==
    /\ text[i].w \in AmountKw
    /\ SepOk(text[i])
    /\ i < Len(text)
    /\ text[i + 1].kind = "num"

\* keyword, at least one separator, then at least one letter, blank or dot:
\* after ": " the blank alone is captured when no letter follows
NameAt(text, i) ==
    /\ text[i].w \in NameKw
    /\ SepOk(text[i])
    /\ (text[i].sep = "colon" \/ (i < Len(text) /\ text[i + 1].kind = "word"))

\* keyword, separators, then exactly ten digits are captured
PhoneAt(text, i) ==
    /\ text[i].w \in PhoneKw
    /\ SepOk(text[i])
    /\ i < Len(text)
    /\ text[i + 1].kind = "num"
    /\ text[i + 1].len >= 10

\* keyword, separators, then ten letters or digits
PanAt(text, i) ==
    /\ text[i].w \in PanKw
    /\ SepOk(text[i])
    /\ i < Len(text)
    /\ text[i + 1].len >= 10

\* keyword, then [\s:]* and one or more letters or blanks: a single blank
\* after the keyword is enough for the capture
LocationAt(text, i) == text[i].w \in LocationKw /\ SepOk(text[i])

LoanAt(text, i) == text[i].w \in LoanKw /\ SepOk(text[i])

PurposeAt(text, i) == text[i].w \in PurposeKw /\ SepOk(text[i])

UrgencyTest(text) == \E i \in 1..Len(text) : text[i].w \in UrgencyKw

\* parseFloat(amountMatch[1]) * 1000: the captured group holds the digits
\* only, the optional k lies outside it
AmountValue(tok) == tok.n * 1000

Priority(confidence) ==
    IF confidence > 60 THEN "High" ELSE IF confidence > 30 THEN "Medium" ELSE "Low"

\* if (match) { ...; confidence += weight }
Bump(confidence, match, weight) ==
    IF match THEN FloatAdd(confidence, weight) ELSE confidence

quickPatternCheck(text) ==
    LET a == FirstPos({i \in DOMAIN text : AmountAt(text, i)})
        n == FirstPos({i \in DOMAIN text : NameAt(text, i)})
        p == FirstPos({i \in DOMAIN text : PhoneAt(text, i)})
        pn == FirstPos({i \in DOMAIN text : PanAt(text, i)})
        pu == FirstPos({i \in DOMAIN text : PurposeAt(text, i)})
        lo == FirstPos({i \in DOMAIN text : LoanAt(text, i)})
        ur == UrgencyTest(text)
        lc == FirstPos({i \in DOMAIN text : LocationAt(text, i)})
        c1 == Bump(0, a # 0, 30)
        c2 == Bump(c1, n # 0, 20)
        c3 == Bump(c2, p # 0, 20)
        c4 == Bump(c3, pn # 0, 10)
        c5 == Bump(c4, pu # 0, 10)
        c6 == Bump(c5, lo # 0, 10)
        c7 == Bump(c6, ur, 10)
        c8 == Bump(c7, lc # 0, 10)
        isPotentialLead ==
            a # 0 \/ n # 0 \/ p # 0 \/ pn # 0 \/ pu # 0 \/ lo # 0 \/ lc # 0
    IN  [ isLead |-> isPotentialLead,
          confidence |-> c8,
          priority |-> Priority(c8),
          extractedInfo |->
            [ contact |->
                [ name |-> IF n # 0 THEN Some(WordsRun(text, n + 1)) ELSE None,
                  phone |-> IF p # 0 THEN Some(text[p + 1].w) ELSE None,
                  pan |-> IF pn # 0 THEN Some(text[pn + 1].w) ELSE None ],
              financial |->
                [ amount |-> IF a # 0 THEN Some(AmountValue(text[a + 1])) ELSE None,
                  purpose |-> IF pu # 0 THEN Some(WordsRun(text, pu + 1)) ELSE None,
                  loanType |-> IF lo # 0 THEN Some(WordsRun(text, lo + 1)) ELSE None,
                  urgency |-> IF ur THEN Some("High") ELSE None ],
              location |->
                [ area |-> IF lc # 0 THEN Some(WordsRun(text, lc + 1)) ELSE None ] ],
          reasoning |-> "Quick pattern check",
          isNewLead |-> TRUE,
          relatedToExisting |-> FALSE ]

(***************************************************************************)
(* The classification backend (fetch of the OpenRouter endpoint) is an     *)
(* external collaborator.  One call either never answers, fails on the     *)
(* network, answers without choices, answers with content that is not      *)
(* JSON, or answers with a JSON classification.                            *)
(***************************************************************************)
SISTER == "919686693567@s.whatsapp.net"

ORDINARY == "919900000001@s.whatsapp.net"

NoInfo ==
    [ contact |-> [name |-> None, phone |-> None, pan |-> None],
      financial |-> [amount |-> None, purpose |-> None, loanType |-> None, urgency |-> None],
      location |-> [area |-> None] ]

RemoteLead ==
    [ isLead |-> TRUE, confidence |-> 90, priority |-> "High", extractedInfo |-> NoInfo,
      reasoning |-> "remote", isNewLead |-> TRUE, relatedToExisting |-> FALSE ]

RemoteUnsure ==
    [ isLead |-> FALSE, confidence |-> 50, priority |-> "Low", extractedInfo |-> NoInfo,
      reasoning |-> "remote", isNewLead |-> FALSE, relatedToExisting |-> FALSE ]

\* content that is JSON and has two of the fields the prompt asks for
RemotePartial == [isLead |-> TRUE, isNewLead |-> TRUE]

FailureModes == {"network_error", "no_choices", "bad_json"}

\* the condition of the backend while one message is classified
BackendModes == {"hang", "ok"} \cup FailureModes

\* what a call gets in that condition: the content matters when it answers
Response(mode, analysis) ==
    [mode |-> mode, analysis |-> IF mode = "ok" THEN analysis ELSE RemoteUnsure]

\* the value of a property read in a condition: a property the object does
\* not have reads as undefined, which is falsy
Truthy(obj, prop) == IF prop \in DOMAIN obj THEN obj[prop] = TRUE ELSE FALSE

\* outcome of an asynchronous classification: the value it resolves to, the
\* number of backend calls it made, and whether it is still waiting for one
Resolved(res, calls) == [res |-> res, calls |-> calls, pending |-> FALSE]

Pending(calls) == [res |-> RemoteUnsure, calls |-> calls, pending |-> TRUE]

\* a guard on a property every quick check result has set
NewLead(quickCheck) == Truthy(quickCheck, "isNewLead")

\* the guard of analyzeText and analyzeSisterLead on the quick check
PotentialLead(quickCheck) == Truthy(quickCheck, "isPotentialLead")

analyzeSisterLead(text, resp) ==
    LET quickCheck == quickPatternCheck(text) IN
    IF ~PotentialLead(quickCheck) THEN Resolved(quickCheck, 0)
    ELSE CASE resp.mode = "hang" -> Pending(1)
           [] resp.mode \in FailureModes -> Resolved(quickPatternCheck(text), 1)
           [] OTHER ->
                Resolved([ f \in DOMAIN resp.analysis \cup {"confidence", "priority", "isNewLead"} |->
                             CASE f = "confidence" ->
                                    IF "confidence" \notin DOMAIN resp.analysis THEN "NaN"
                                    ELSE IF resp.analysis.confidence + 20 > 100 THEN 100
                                    ELSE resp.analysis.confidence + 20
                               [] f = "priority" -> "High"
                               [] f = "isNewLead" -> TRUE
                               [] OTHER -> resp.analysis[f] ], 1)

\* fastAnalysis and detailedAnalysis: the parsed content, or an exception
Throws(resp) == resp.mode \in FailureModes

\* fastAnalysis.confidence > 0.8; undefined is not above anything
Confident(analysis) == "confidence" \in DOMAIN analysis /\ analysis.confidence > 80

analyzeText(text, sender, fast, detailed) ==
    IF sender = SISTER THEN analyzeSisterLead(text, fast)
    ELSE
      LET quickCheck == quickPatternCheck(text) IN
      IF ~PotentialLead(quickCheck)
      THEN Resolved([ isLead |-> FALSE, confidence |-> 0, priority |-> "Low",
                      extractedInfo |-> quickCheck.extractedInfo,
                      reasoning |-> "No lead patterns found",
                      isNewLead |-> FALSE, relatedToExisting |-> FALSE ], 0)
      ELSE IF fast.mode = "hang" THEN Pending(1)
      ELSE IF ~Throws(fast) /\ Confident(fast.analysis)
           THEN Resolved(fast.analysis, 1)
      ELSE IF detailed.mode = "hang" THEN Pending(2)
      ELSE IF Throws(detailed) THEN Resolved(quickPatternCheck(text), 2)
      ELSE Resolved(detailed.analysis, 2)

(***************************************************************************)
(* The inbound messages the transport can deliver.  The transport delivers *)
(* at least once: the same id always carries the same message.             *)
(***************************************************************************)
GroupA == "1203630001@g.us"

GroupB == "1203630002@g.us"

\* sock.groupMetadata(jid).subject
GroupSubject(jid) == IF jid = GroupA THEN "Bajaj + Isha" ELSE "Family"

groupsToMonitor ==
    { "Bajaj + Dr Agarwal rajji nagar", "Bajaj + Dr Shetty", "Orane + Bajaj finserv",
      "Partha+Bajaj Bangalore", "Bajaj + Nethradama Rajajinagar", "Headz + Bajaj FINSERV",
      "Bajaj +REHABILITATIONS specialist", "Bajaj + Ad gro (OZIVIT)", "Bajaj+ Priya hearing",
      "Bajaj-Rehamo", "Bajaj+ Baby sience", "Bajaj+ LAKME RAJJINAGAR", "Bajaj + Isha",
      "VASAN EYE CARE + BAJAJ FINSERV", "LC Rok + bajaj", "Bajaj Fin and SleepMed",
      "Bajaj+Partha Dasarahalli", "Vlcc + bajaj rajji nagar", "Bajaj + Cozmo BLIS",
      "Bajaj Finance+Smiles.ai" }

\* message.key and the text of message.message; participant is "" outside groups
Msg(jid, participant, fromMe, text) ==
    [remoteJid |-> jid, participant |-> participant, fromMe |-> fromMe, text |-> text]

\* the messages of one execution: what the bot's chats hold while it runs
WorldDedup ==
    << Msg(GroupA, SISTER, FALSE, TextScenario),
       Msg(GroupA, SISTER, FALSE, TextFollowUp),
       Msg(GroupA, ORDINARY, FALSE, TextScenario),
       Msg(GroupA, ORDINARY, FALSE, TextGreeting) >>

WorldChats ==
    << Msg(SISTER, "", FALSE, TextOther),
       Msg(GroupB, SISTER, FALSE, TextScenario),
       Msg(GroupA, SISTER, FALSE, TextScenario),
       Msg(GroupA, SISTER, FALSE, TextThanks) >>

WorldSkips ==
    << Msg(GroupA, ORDINARY, TRUE, TextOther),
       Msg(GroupA, ORDINARY, FALSE, TextEmpty),
       Msg(ORDINARY, "", FALSE, TextOther),
       Msg(SISTER, "", FALSE, TextGreeting) >>

\* one group with two leads that have nothing in common, one of them
\* without an identifier and sent again in other words
WorldPairs ==
    << Msg(GroupA, SISTER, FALSE, TextWalkIn),
       Msg(GroupA, SISTER, FALSE, TextWalkInAgain),
       Msg(GroupA, SISTER, FALSE, TextOther),
       Msg(GroupA, ORDINARY, FALSE, TextGreeting) >>

Worlds ==
    [dedup |-> WorldDedup, chats |-> WorldChats, skips |-> WorldSkips, pairs |-> WorldPairs]

MsgIds == DOMAIN WorldDedup

\* the chats the bot can write to
Chats == {GroupA, GroupB, SISTER}

\* the texts handed to the detector on its own
DetectorTexts == {TextScenario, TextGreeting}

Batches == UNION { [1..n -> MsgIds] : n \in 1..MaxBatchLen }

\* message.key.participant || message.key.remoteJid
Sender(m) == IF m.participant # "" THEN m.participant ELSE m.remoteJid

\* message.key.remoteJid.endsWith('@g.us')
IsGroup(m) == m.remoteJid \in {GroupA, GroupB}

VARIABLES
    world,                \* which messages the transport can deliver
    isProcessingMessage,  \* the processing guard
    processedMessages,    \* ids the handler has seen
    runs,                 \* the invocations of the handler that are in progress
    botState,             \* global.botState: "undefined" until the menu starts
    leadStats,            \* the menu's counters
    leads,                \* LeadManager.leads, in creation order
    stored,               \* the 'leads' document of the state directory
    checkedLeads,         \* lead tracker: messages already answered
    identifierIndex,      \* lead tracker: identifier -> lead
    context,              \* lead tracker: recent texts of each conversation
    activeLeads,          \* lead tracker: leads of each conversation
    queue,                \* MessageQueue.queue
    processing,           \* MessageQueue.processing
    outbox,               \* how many replies the transport has sent to each message
    lastEvent,            \* history: the latest event and the message it was about
    evals,                \* history: how often each id passed the seen-check
    remoteCalls,          \* history: ids for which the backend was called
    lastExit,             \* history: messages left over when the handler last ended
    sample,               \* a text handed to the classifiers on its own
    verdict,              \* what the classifiers returned for it
    clock,                \* milliseconds since the bot was started
    attempts,             \* counted history: transport calls made for each queued reply
    lastRound,            \* timed history: when the queue last called the transport
    lastAck,              \* timed history: when each chat last got a queued reply
    greetings,            \* menu history: greetings each chat has got today
    remoteAt,             \* detector history: when the backend last answered for a text
    connection,           \* the socket's connection, or "exited" when the process has ended
    sockets,              \* how many times startWhatsAppBot has been called
    alerts,               \* history: alerts the admin has got for the lead of each message
    inFlight,             \* store history: calls of the lead store that have not returned
    sending,              \* the sends of the queue's batch in hand that have not settled
    windows,              \* RateLimiter.windows: key -> { messages, lastMessage }
    grants                \* limiter history: the times at which each key was allowed

\* the messages the transport can deliver, by id
Inbox == Worlds[world]

handlerVars == <<isProcessingMessage, processedMessages, runs>>

menuVars == <<botState, leadStats>>

storeVars == <<leads, stored>>

trackerVars == <<checkedLeads, identifierIndex, context, activeLeads>>

queueVars == <<queue, processing, outbox>>

historyVars == <<lastEvent, evals, remoteCalls, lastExit>>

classifierVars == <<sample, verdict>>

timeVars == <<clock, attempts, lastRound, lastAck, greetings>>

\* what only the specifications of the parts change
detectorVars == <<remoteAt>>

connectionVars == <<connection, sockets>>

alertVars == <<alerts>>

limiterVars == <<windows, grants>>

partVars == <<inFlight, sending, limiterVars>>

auxVars == <<timeVars, detectorVars, connectionVars, alertVars, partVars>>

vars == <<world, auxVars, classifierVars, handlerVars, menuVars, storeVars, trackerVars, queueVars, historyVars>>

(***************************************************************************)
(* checkForLeadPatterns: the pattern check of the direct-message branch.   *)
(***************************************************************************)
DmNameAt(text, i) ==
    /\ text[i].w \in {"name", "patient", "customer", "cx"}
    /\ SepOk(text[i])
    /\ (text[i].sep = "colon" \/ (i < Len(text) /\ text[i + 1].kind = "word"))

DmPhoneAt(text, i) ==
    /\ text[i].w \in {"phone", "contact", "number"}
    /\ SepOk(text[i])
    /\ i < Len(text)
    /\ text[i + 1].kind = "num"
    /\ text[i + 1].len >= 10

DmAmountAt(text, i) ==
    /\ text[i].w \in {"amount", "plan", "scheme", "tenure"}
    /\ SepOk(text[i])
    /\ i < Len(text)
    /\ text[i + 1].kind = "num"

DmStatusAt(text, i) ==
    /\ text[i].w \in {"existing", "new"}
    /\ text[i].sep = "sp"
    /\ i < Len(text)
    /\ text[i + 1].w = "customer"

DmLocationAt(text, i) == text[i].w \in {"branch", "clinic", "area"} /\ SepOk(text[i])

DmContextAt(text, i) ==
    \/ text[i].w = "details"
    \/ /\ text[i].w \in {"please", "kindly", "eligibility"}
       /\ text[i].sep = "sp"
       /\ i < Len(text)
       /\ text[i + 1].w = "check"

\* a number of four to six digits between word boundaries
DmPotentialAmountAt(text, i) ==
    text[i].kind = "num" /\ text[i].len \in 4..6 /\ ~text[i].k

DmTimePeriodAt(text, i) ==
    /\ text[i].kind = "num"
    /\ ~text[i].k
    /\ text[i].sep = "sp"
    /\ i < Len(text)
    /\ text[i + 1].w \in {"month", "months", "year", "years", "day", "days"}

\* RegExp.test: the pattern matches somewhere
Test(hits) == hits # { }

checkForLeadPatterns(text) ==
    LET hasContactInfo == Test({i \in DOMAIN text : DmNameAt(text, i)}) \/ Test({i \in DOMAIN text : DmPhoneAt(text, i)})
        hasFinancialInfo == Test({i \in DOMAIN text : DmAmountAt(text, i)}) \/ Test({i \in DOMAIN text : DmPotentialAmountAt(text, i)})
        hasLocationInfo == Test({i \in DOMAIN text : DmLocationAt(text, i)})
        hasContext == Test({i \in DOMAIN text : DmContextAt(text, i)})
        hasStatus == Test({i \in DOMAIN text : DmStatusAt(text, i)})
        hasTimePeriod == Test({i \in DOMAIN text : DmTimePeriodAt(text, i)})
    IN  hasContactInfo \/ hasFinancialInfo \/ hasLocationInfo
            \/ hasContext \/ hasStatus \/ hasTimePeriod

(***************************************************************************)
(* leadPatterns and isLeadMessage.                                         *)
(***************************************************************************)
LpNameAt(text, i) ==
    /\ text[i].w \in {"name", "patient", "cx", "customer"}
    /\ SepOk(text[i])
    /\ (text[i].sep = "colon" \/ (i < Len(text) /\ text[i + 1].kind = "word"))

LpEmailAt(text, i) == text[i].kind = "email"

LpAmountAt(text, i) ==
    /\ text[i].w \in {"amount", "loan", "limit"}
    /\ SepOk(text[i])
    /\ i < Len(text)
    /\ text[i + 1].kind = "num"

\* keyword, separators, then digits, a slash and digits
LpTenureAt(text, i) ==
    /\ text[i].w \in {"tenure", "scheme"}
    /\ SepOk(text[i])
    /\ i < Len(text)
    /\ text[i + 1].kind = "ratio"

LpEmiAt(text, i) ==
    /\ text[i].w \in {"emi", "monthly"}
    /\ SepOk(text[i])
    /\ i < Len(text)
    /\ text[i + 1].kind = "num"

LpTopupAt(text, i) ==
    /\ text[i].w \in {"topup", "additional", "more"}
    /\ SepOk(text[i])
    /\ i < Len(text)
    /\ text[i + 1].kind = "num"

LpBranchAt(text, i) == text[i].w \in {"branch", "area"} /\ SepOk(text[i])

LpCityAt(text, i) == text[i].w \in {"city", "location"} /\ SepOk(text[i])

LpExistingAt(text, i) ==
    /\ text[i].w \in {"existing", "current", "old"}
    /\ SepOk(text[i])
    /\ i < Len(text)
    /\ text[i + 1].w = "customer"

LpNewAt(text, i) ==
    /\ text[i].w \in {"new", "fresh"}
    /\ SepOk(text[i])
    /\ i < Len(text)
    /\ text[i + 1].w = "customer"

\* if (!message) return false: what comes back is the boolean itself
ReturnsFalse == [object |-> FALSE]

\* a threshold that takes any signal for a lead
AnySignal(isLead, confidence) == confidence > 0

\* the threshold of isLeadMessage: the flag set by a field, and confidence >= 0.3
AboveThreshold(isLead, confidence) == isLead /\ confidence >= 30

isLeadMessage(message) ==
    IF message = TextEmpty THEN ReturnsFalse
    ELSE
      LET hasCustomerInfo ==
                \/ Test({i \in DOMAIN message : LpNameAt(message, i)})
                \/ Test({i \in DOMAIN message : PhoneAt(message, i)})
                \/ Test({i \in DOMAIN message : LpEmailAt(message, i)})
                \/ Test({i \in DOMAIN message : PanAt(message, i)})
          hasLoanInfo ==
                \/ Test({i \in DOMAIN message : LpAmountAt(message, i)})
                \/ Test({i \in DOMAIN message : LpTenureAt(message, i)})
                \/ Test({i \in DOMAIN message : LpEmiAt(message, i)})
                \/ Test({i \in DOMAIN message : LpTopupAt(message, i)})
          hasLocationInfo ==
                \/ Test({i \in DOMAIN message : LpBranchAt(message, i)})
                \/ Test({i \in DOMAIN message : LpCityAt(message, i)})
          isUrgent == UrgencyTest(message)
          isExistingCustomer == Test({i \in DOMAIN message : LpExistingAt(message, i)})
          isNewCustomer ==
                ~isExistingCustomer /\ Test({i \in DOMAIN message : LpNewAt(message, i)})
          c1 == Bump(0, hasCustomerInfo, 30)
          c2 == Bump(c1, hasLoanInfo, 30)
          c3 == Bump(c2, hasLocationInfo, 20)
          c4 == Bump(c3, isUrgent, 10)
          c5 == Bump(c4, isExistingCustomer \/ isNewCustomer, 10)
      IN  [ object |-> TRUE,
            isLead |-> AboveThreshold(hasCustomerInfo \/ hasLoanInfo \/ hasLocationInfo, c5),
            leadDetails |->
              [ hasCustomerInfo |-> hasCustomerInfo,
                hasLoanInfo |-> hasLoanInfo,
                hasLocationInfo |-> hasLocationInfo,
                isUrgent |-> isUrgent,
                isExistingCustomer |-> isExistingCustomer,
                isNewCustomer |-> isNewCustomer,
                confidence |-> c5 ] ]

(***************************************************************************)
(* The lead tracker.  Its operations are called by the handler; what they  *)
(* do follows the design of the Lead Tracker / Dedup Engine (section 4.4). *)
(***************************************************************************)
ContextSize == 10

RecentWindow == 5

StopWords == {"the", "a", "an", "is", "of", "to", "and"}

\* a bare run of exactly ten digits
BarePhoneAt(text, i) == text[i].kind = "num" /\ text[i].len = 10

\* labelled fields take priority over bare heuristics
extractIdentifiers(text) ==
    LET p == FirstPos({i \in DOMAIN text : PhoneAt(text, i)})
        b == FirstPos({i \in DOMAIN text : BarePhoneAt(text, i)})
    IN  IF p # 0 THEN { <<"phone", text[p + 1].w>> }
        ELSE IF b # 0 THEN { <<"phone", text[b].w>> }
        ELSE { }

KeywordSet(text) == { text[i].w : i \in DOMAIN text } \ StopWords

\* Jaccard similarity above 0.7
Similar(a, b) ==
    LET A == KeywordSet(a)
        B == KeywordSet(b)
    IN  /\ A \cup B # { }
        /\ 10 * Cardinality(A \cap B) > 7 * Cardinality(A \cup B)

LastN(seq, n) == IF Len(seq) <= n THEN seq ELSE SubSeq(seq, Len(seq) - n + 1, Len(seq))

hasCheckedLead(messageId, conv) == <<messageId, conv>> \in checkedLeads

findByIdentifier(text) == extractIdentifiers(text) \cap DOMAIN identifierIndex # { }

\* a relatedness test that knows identifiers only
isMessageAboutExistingLeadById(text, conv) == findByIdentifier(text)

isMessageAboutExistingLead(text, conv) ==
    \/ findByIdentifier(text)
    \/ LET recent == LastN(context[conv], RecentWindow)
       IN  \E j \in DOMAIN recent : Similar(text, recent[j])

addToContext(conv, text) == [context EXCEPT ![conv] = LastN(Append(@, text), ContextSize)]

\* addLead: the lead joins the conversation's leads and its identifiers the index
addLeadIndex(lead) ==
    [ k \in DOMAIN identifierIndex \cup extractIdentifiers(lead.message) |->
        IF k \in extractIdentifiers(lead.message) THEN lead.id ELSE identifierIndex[k] ]

addLeadActive(conv, lead) == [activeLeads EXCEPT ![conv] = @ \cup {lead.id}]

markLeadAsChecked(messageId, conv) == checkedLeads \cup { <<messageId, conv>> }

(***************************************************************************)
(* LeadManager.createLead and categorizeLead.  A record's id is built from *)
(* the clock and a random suffix; the model takes it as fresh and uses the *)
(* position of the record in creation order.                               *)
(***************************************************************************)
\* a categorisation whose thresholds include their bounds
categorizeLeadInclusive(data) ==
    IF data.isUrgent = Some(TRUE) \/ (data.amount # None /\ data.amount[1] >= 100000)
    THEN "High"
    ELSE IF data.amount # None /\ data.amount[1] >= 50000 THEN "Medium"
    ELSE "Low"

\* a comparison with undefined is false
categorizeLead(data) ==
    IF data.isUrgent = Some(TRUE) \/ (data.amount # None /\ data.amount[1] > 100000)
    THEN "High"
    ELSE IF data.amount # None /\ data.amount[1] > 50000 THEN "Medium"
    ELSE "Low"

\* the handler spreads extractedInfo, whose keys are contact, financial and
\* location: the data it passes has no amount and no isUrgent of its own
HandlerLeadData(leadAnalysis, groupName, senderName, text) ==
    [ contact |-> leadAnalysis.extractedInfo.contact,
      financial |-> leadAnalysis.extractedInfo.financial,
      location |-> leadAnalysis.extractedInfo.location,
      amount |-> None,
      isUrgent |-> None,
      source |-> groupName,
      sender |-> senderName,
      message |-> text,
      priority |-> leadAnalysis.priority ]

\* the key a new lead is stored under: LEAD-<clock>-<random>, taken as fresh
NewKey == Len(leads) + 1

\* createLead's record: { id, ...data, status, category, ..., history }.  The
\* properties of data come after id and before the others; mid is history
\* (the message the record was created from, 0 outside the handler).
createLead(data, mid) ==
    [ f \in DOMAIN data \cup {"id", "mid", "status", "category", "history"} |->
        CASE f = "id" -> IF "id" \in DOMAIN data THEN data.id ELSE NewKey
          [] f = "mid" -> mid
          [] f = "status" -> "New"
          [] f = "category" -> categorizeLead(data)
          [] f = "history" -> << [action |-> "Created", details |-> "Lead created"] >>
          [] OTHER -> data[f] ]

\* LeadManager.statuses
statuses == {"New", "In Progress", "Closed", "Lost"}

\* an update whose patch is spread after the history has been extended
updateLeadPatchLast(lead, updates) ==
    [ f \in DOMAIN lead \cup DOMAIN updates |->
        IF f \in DOMAIN updates THEN updates[f]
        ELSE IF f = "history"
        THEN Append(lead.history, [action |-> "Updated", details |-> updates])
        ELSE lead[f] ]

\* updateLead's record: { ...lead, ...updates, updatedAt, history: [...lead.history,
\* { action: 'Updated', details: JSON.stringify(updates) }] }
updateLead(lead, updates) ==
    [ f \in DOMAIN lead \cup DOMAIN updates |->
        IF f = "history"
        THEN Append(lead.history, [action |-> "Updated", details |-> updates])
        ELSE IF f \in DOMAIN updates THEN updates[f]
        ELSE lead[f] ]

\* a rate as a fraction; closed / total * 100 is num / den
Rate(num, den) == [num |-> num, den |-> den]

\* a rate computed without looking at the total first
calculateConversionRateUnguarded(all) ==
    Rate(Cardinality({k \in DOMAIN all : all[k].status = "Closed"}) * 100, Len(all))

calculateConversionRate(all) ==
    LET closed == Cardinality({k \in DOMAIN all : all[k].status = "Closed"})
        total == Len(all)
    IN  IF total > 0 THEN Rate(closed * 100, total) ELSE Rate(0, 1)

getLeadStats(all) ==
    [ total |-> Len(all),
      byStatus |-> [st \in statuses |->
                        Cardinality({k \in DOMAIN all : all[k].status = st})],
      byCategory |-> [c \in {"High", "Medium", "Low"} |->
                        Cardinality({k \in DOMAIN all : all[k].category = c})],
      conversionRate |-> calculateConversionRate(all) ]

(***************************************************************************)
(* MessageQueue constants and the state after construction.                *)
(***************************************************************************)
maxRetries == 2

batchSize == 5

NoAnalysis ==
    [ isLead |-> FALSE, confidence |-> 0, priority |-> "Low", extractedInfo |-> NoInfo,
      reasoning |-> "none", isNewLead |-> FALSE, relatedToExisting |-> FALSE ]

\* one invocation of the messages.upsert handler: the messages its loop has
\* still to visit (the first is the current one), where it is suspended, and
\* the leadAnalysis of the iteration (with the message it belongs to and the
\* condition the backend was in)
NewRun(batch) ==
    [ todo |-> batch, pc |-> "loop",
      leadAnalysis |-> NoAnalysis, analysed |-> 0, backend |-> "none" ]

Event(id, what) == [id |-> id, what |-> what]

\* neither classifier has been called on the sample
NoVerdict == [quick |-> None, message |-> None]

\* the bot after construction, before any event
BotInit ==
    /\ isProcessingMessage = FALSE
    /\ processedMessages = { }
    /\ runs = << >>
    /\ botState = "undefined"
    /\ leadStats = [totalLeads |-> 0, todayLeads |-> 0, urgentLeads |-> 0]
    /\ leads = << >>
    /\ stored = << >>
    /\ checkedLeads = { }
    /\ identifierIndex = << >>
    /\ context = [c \in {GroupA, GroupB} |-> << >>]
    /\ activeLeads = [c \in {GroupA, GroupB} |-> { }]
    /\ queue = << >>
    /\ processing = FALSE
    /\ outbox = [id \in MsgIds |-> 0]
    /\ lastEvent = Event(0, "none")
    /\ evals = [id \in MsgIds |-> 0]
    /\ remoteCalls = { }
    /\ lastExit = [left |-> 0]
    /\ clock = 0
    /\ attempts = [id \in MsgIds |-> 0]
    /\ lastRound = None
    /\ lastAck = [c \in Chats |-> None]
    /\ greetings = [c \in Chats |-> 0]
    /\ remoteAt = [t \in DetectorTexts |-> None]
    /\ connection = "connecting"
    /\ sockets = 1
    /\ alerts = [id \in MsgIds |-> 0]
    /\ inFlight = { }
    /\ sending = { }
    /\ windows = << >>
    /\ grants = << >>

Init ==
    /\ world \in {"dedup", "chats", "skips"}
    /\ sample = TextEmpty
    /\ verdict = NoVerdict
    /\ BotInit

(***************************************************************************)
(* startTestMenu, two seconds after start-up: global.botState is set.      *)
(***************************************************************************)
StartMenu ==
    /\ botState = "undefined"
    /\ botState' = "monitoring"
    /\ UNCHANGED <<world, auxVars, classifierVars, handlerVars, leadStats, storeVars, trackerVars, queueVars,
                   historyVars>>

(***************************************************************************)
(* The messages.upsert handler.                                            *)
(***************************************************************************)
\* the flag for responses being sent: declared, and assigned nowhere
isSendingResponse == FALSE

\* a guard on the flag that nothing sets
BusySending == isSendingResponse

\* the guard at the head of the handler
Busy == isProcessingMessage

\* a messages.upsert event arrives; its batch is only looked at behind the guard
Upsert ==
    /\ IF Busy
       THEN /\ lastEvent' = Event(0, "dropped")
            /\ UNCHANGED <<handlerVars>>
       ELSE /\ isProcessingMessage' = TRUE
            /\ \E batch \in Batches : runs' = Append(runs, NewRun(batch))
            /\ lastEvent' = Event(0, "accepted")
            /\ UNCHANGED processedMessages
    /\ UNCHANGED <<world, auxVars, classifierVars, menuVars, storeVars, trackerVars, queueVars,
                   evals, remoteCalls, lastExit>>

Current(run) == Head(run.todo)

\* continue: on to the next message of the batch
Continue(r) == [runs EXCEPT ![r].todo = Tail(@), ![r].pc = "loop"]

\* a new iteration: its leadAnalysis is not yet assigned
Iteration(rs, r) ==
    [rs EXCEPT ![r].leadAnalysis = NoAnalysis, ![r].analysed = 0, ![r].backend = "none"]

\* a seen-check that knows only the messages that have been answered
AlreadyAnswered(id) == outbox[id] > 0

\* processedMessages.has(messageId)
AlreadyProcessed(id) == id \in processedMessages

\* the head of the loop body, down to the first call that is awaited
LoopStep(r) ==
    /\ runs[r].pc = "loop"
    /\ runs[r].todo # << >>
    /\ LET id == Current(runs[r])
           m == Inbox[id]
       IN  IF AlreadyProcessed(id)
           THEN /\ runs' = Iteration(Continue(r), r)
                /\ lastEvent' = Event(id, "seen")
                /\ UNCHANGED <<processedMessages, evals>>
           ELSE /\ processedMessages' = processedMessages \cup {id}
                /\ evals' = [evals EXCEPT ![id] = @ + 1]
                /\ IF m.fromMe
                   THEN /\ runs' = Iteration(Continue(r), r)
                        /\ lastEvent' = Event(id, "fromMe")
                   ELSE IF m.text = TextEmpty
                   THEN /\ runs' = Iteration(Continue(r), r)
                        /\ lastEvent' = Event(id, "empty")
                   ELSE IF IsGroup(m)
                   THEN /\ runs' = Iteration([runs EXCEPT ![r].pc = "groupMetadata"], r)
                        /\ lastEvent' = Event(id, "started")
                   ELSE IF Sender(m) = SISTER
                   THEN IF checkForLeadPatterns(m.text)
                        THEN /\ runs' = Iteration([runs EXCEPT ![r].pc = "dmSend"], r)
                             /\ lastEvent' = Event(id, "started")
                        ELSE /\ runs' = Iteration(Continue(r), r)
                             /\ lastEvent' = Event(id, "dmNoLead")
                   ELSE /\ runs' = Iteration(Continue(r), r)
                        /\ lastEvent' = Event(id, "ignored")
    /\ UNCHANGED <<world, auxVars, classifierVars, isProcessingMessage, menuVars, storeVars, trackerVars, queueVars,
                   remoteCalls, lastExit>>

RemoveAt(seq, r) == SubSeq(seq, 1, r - 1) \o SubSeq(seq, r + 1, Len(seq))

\* the end of the handler: the finally block; left are the messages of the
\* batch that the loop has not visited
Exit(r, left) ==
    /\ isProcessingMessage' = FALSE
    /\ lastExit' = [left |-> Len(left)]
    /\ runs' = RemoveAt(runs, r)

\* the loop is through
Finally(r) ==
    /\ runs[r].pc = "loop"
    /\ runs[r].todo = << >>
    /\ Exit(r, << >>)
    /\ UNCHANGED <<world, auxVars, classifierVars, processedMessages, menuVars, storeVars, trackerVars, queueVars,
                   lastEvent, evals, remoteCalls>>

\* an allow-list test on a substring all the group names of the chats share
isBajajOrFamilyGroup(groupName) == groupName \in groupsToMonitor \cup {"Family"}

\* groupsToMonitor.includes(groupName)
isMonitoredGroup(groupName) == groupName \in groupsToMonitor

\* a handler that asks only for the message id, not for the lead
AboutCheckedLead(text, conv) == FALSE

\* the handler skips a message the tracker reports as about an existing lead
AboutExistingLead(text, conv) == isMessageAboutExistingLead(text, conv)

\* sock.groupMetadata answers (or fails); then the checks down to analyzeText.
\* Every exception of the group branch is caught inside the loop body.
GroupMetadata(r, metaOk, lookupOk) ==
    /\ runs[r].pc = "groupMetadata"
    /\ LET id == Current(runs[r])
           m == Inbox[id]
           conv == m.remoteJid
           Skip(what) ==
                /\ runs' = Continue(r)
                /\ lastEvent' = Event(id, what)
                /\ UNCHANGED trackerVars
       IN  IF ~metaOk THEN Skip("metadataError")
           ELSE IF ~isMonitoredGroup(GroupSubject(conv)) THEN Skip("unmonitored")
           ELSE IF botState = "undefined" THEN Skip("noBotState")
           ELSE IF ~lookupOk THEN Skip("lookupError")
           ELSE IF hasCheckedLead(id, conv) THEN Skip("checked")
           ELSE IF AboutExistingLead(m.text, conv) THEN Skip("followUp")
           ELSE /\ context' = addToContext(conv, m.text)
                /\ runs' = [runs EXCEPT ![r].pc = "analyzeText"]
                /\ UNCHANGED <<lastEvent, checkedLeads, identifierIndex, activeLeads>>
    /\ UNCHANGED <<world, auxVars, classifierVars, isProcessingMessage, processedMessages, menuVars, storeVars,
                   queueVars, evals, remoteCalls, lastExit>>

\* analyzeText resolves; a new lead goes on to createLead
AnalyzeText(r, mode, a1, a2) ==
    /\ runs[r].pc = "analyzeText"
    /\ LET id == Current(runs[r])
           m == Inbox[id]
           result == analyzeText(m.text, Sender(m), Response(mode, a1), Response(mode, a2))
           leadAnalysis == result.res
           proceed == leadAnalysis.isLead /\ leadAnalysis.isNewLead
       IN  /\ ~result.pending
           /\ remoteCalls' = IF result.calls > 0 THEN remoteCalls \cup {id} ELSE remoteCalls
           /\ runs' = [runs EXCEPT ![r].todo = IF proceed THEN @ ELSE Tail(@),
                                   ![r].pc = IF proceed THEN "createLead" ELSE "loop",
                                   ![r].leadAnalysis = leadAnalysis,
                                   ![r].analysed = id,
                                   ![r].backend = mode]
           /\ lastEvent' = Event(id, IF proceed THEN "isLead" ELSE "notLead")
    /\ UNCHANGED <<world, auxVars, classifierVars, isProcessingMessage, processedMessages, menuVars, storeVars,
                   trackerVars, queueVars, evals, lastExit>>

\* message.key.participant.split('@')[0], "Unknown" without a participant
SenderName(m) == IF m.participant # "" THEN m.participant ELSE "Unknown"

\* stateManager.saveState: true when the document is written; when the
\* write fails the catch block reads backupPath, which is declared inside
\* the try block, and the ReferenceError leaves saveState
saveState(writeOk) == IF writeOk THEN "true" ELSE "throws"

\* const sendLeadAlerts = false
sendLeadAlerts == FALSE

\* sendLeadAlert: the alerts the admin has got once the call is through; with
\* alerts disabled it returns at once, and a send that fails is logged
sendLeadAlert(sent, ok) == IF ~sendLeadAlerts THEN sent ELSE IF ok THEN sent + 1 ELSE sent

QueueEntry(to, text, mid) == [to |-> to, text |-> text, retries |-> 0, mid |-> mid]

\* leadManager.createLead resolves or fails on saving; then the lead is
\* tracked, counted, logged and announced (sendLeadAlert), and the
\* acknowledgement is queued.
\* saveState fails by throwing from its catch block (backupPath is out of
\* scope there), after the record has been put into the map.
CreateLead(r, saveOk) ==
    /\ runs[r].pc = "createLead"
    /\ LET id == Current(runs[r])
           m == Inbox[id]
           conv == m.remoteJid
           leadAnalysis == runs[r].leadAnalysis
           lead == createLead(HandlerLeadData(leadAnalysis, GroupSubject(conv),
                                              SenderName(m), m.text), id)
       IN  /\ leads' = Append(leads, lead)
           /\ IF saveState(saveOk) = "throws"
              THEN /\ runs' = Continue(r)
                   /\ lastEvent' = Event(id, "saveError")
                   /\ UNCHANGED <<stored, trackerVars, leadStats, queue, processing, alerts>>
              ELSE /\ stored' = leads'
                   /\ \E alertOk \in BOOLEAN :
                        alerts' = [alerts EXCEPT ![id] = sendLeadAlert(@, alertOk)]
                   /\ identifierIndex' = addLeadIndex(lead)
                   /\ activeLeads' = addLeadActive(conv, lead)
                   /\ checkedLeads' = markLeadAsChecked(id, conv)
                   /\ leadStats' =
                        [ totalLeads |-> leadStats.totalLeads + 1,
                          todayLeads |-> leadStats.todayLeads + 1,
                          urgentLeads |-> leadStats.urgentLeads
                                + (IF leadAnalysis.priority = "High" THEN 1 ELSE 0) ]
                   /\ queue' = Append(queue, QueueEntry(conv, "Checking team", id))
                   /\ lastEvent' = Event(id, "tracked")
                   /\ IF ~processing
                      THEN processing' = TRUE /\ runs' = [runs EXCEPT ![r].pc = "sending"]
                      ELSE UNCHANGED processing /\ runs' = Continue(r)
                   /\ UNCHANGED context
    /\ UNCHANGED <<world, timeVars, detectorVars, connectionVars, partVars, classifierVars, isProcessingMessage, processedMessages, botState, outbox,
                   evals, remoteCalls, lastExit>>

\* subsequence of seq at the positions, from j on, that lie in keep
RECURSIVE SelectAt(_, _, _)
SelectAt(seq, j, keep) ==
    IF j > Len(seq) THEN << >>
    ELSE (IF j \in keep THEN << seq[j] >> ELSE << >>) \o SelectAt(seq, j + 1, keep)

Retry(entry) == [entry EXCEPT !.retries = @ + 1]

\* a retry test that lets the entry through once more
MayRetryInclusive(entry) == entry.retries <= maxRetries

\* message.retries < this.maxRetries
MayRetry(entry) == entry.retries < maxRetries

\* the entries one round of process() takes from the queue
Taken == SubSeq(queue, 1, IF Len(queue) < batchSize THEN Len(queue) ELSE batchSize)

\* a drain that takes a lead whose reply is given up out of the tracker
ProcessBatchRollback(r, okSet) ==
    /\ runs[r].pc = "sending"
    /\ queue # << >>
    /\ LET batch == Taken
           n == Len(batch)
           rest == SubSeq(queue, n + 1, Len(queue))
           retried == { j \in 1..n : j \notin okSet /\ MayRetry(batch[j]) }
           id == Current(runs[r])
       IN  /\ okSet \subseteq 1..n
           /\ outbox' = [mid \in MsgIds |->
                            outbox[mid] + Cardinality({j \in okSet : batch[j].mid = mid})]
           /\ queue' = rest \o SelectAt([j \in 1..n |-> Retry(batch[j])], 1, retried)
           /\ IF queue' = << >>
              THEN /\ processing' = FALSE
                   /\ runs' = Continue(r)
                   /\ lastEvent' =
                        Event(id, IF outbox'[id] > outbox[id] THEN "acked" ELSE "ackDropped")
              ELSE UNCHANGED <<processing, runs, lastEvent>>
    /\ checkedLeads' =
            IF queue' = << >> /\ outbox' = outbox
            THEN checkedLeads \ { <<Current(runs[r]), Inbox[Current(runs[r])].remoteJid>> }
            ELSE checkedLeads
    /\ activeLeads' =
            IF queue' = << >> /\ outbox' = outbox
            THEN [c \in DOMAIN activeLeads |-> { }]
            ELSE activeLeads
    /\ UNCHANGED <<world, classifierVars, isProcessingMessage, processedMessages, menuVars, storeVars,
                   identifierIndex, context, evals, remoteCalls, lastExit>>

\* one round of MessageQueue.process: up to batchSize messages are sent at
\* once; a failed one is pushed back while it has retries left; the drain
\* ends when the queue is empty, and the handler goes on behind add()
ProcessBatch(r, okSet) ==
    /\ runs[r].pc = "sending"
    /\ queue # << >>
    /\ LET batch == Taken
           n == Len(batch)
           rest == SubSeq(queue, n + 1, Len(queue))
           retried == { j \in 1..n : j \notin okSet /\ MayRetry(batch[j]) }
           id == Current(runs[r])
       IN  /\ okSet \subseteq 1..n
           /\ outbox' = [mid \in MsgIds |->
                            outbox[mid] + Cardinality({j \in okSet : batch[j].mid = mid})]
           /\ queue' = rest \o SelectAt([j \in 1..n |-> Retry(batch[j])], 1, retried)
           /\ IF queue' = << >>
              THEN /\ processing' = FALSE
                   /\ runs' = Continue(r)
                   /\ lastEvent' =
                        Event(id, IF outbox'[id] > outbox[id] THEN "acked" ELSE "ackDropped")
              ELSE UNCHANGED <<processing, runs, lastEvent>>
    /\ UNCHANGED <<world, classifierVars, isProcessingMessage, processedMessages, menuVars, storeVars,
                   trackerVars, evals, remoteCalls, lastExit>>

\* the drain as the untimed specifications see it
SendBatch(r, okSet) == ProcessBatch(r, okSet) /\ UNCHANGED auxVars

\* a handler without the finally block: an error that leaves the loop ends
\* the handler with the guard still set
DmSendNoFinally(r, ok) ==
    /\ runs[r].pc = "dmSend"
    /\ LET id == Current(runs[r])
       IN  IF ok
           THEN /\ outbox' = [outbox EXCEPT ![id] = @ + 1]
                /\ runs' = Continue(r)
                /\ lastEvent' = Event(id, "dmSent")
                /\ UNCHANGED <<isProcessingMessage, lastExit>>
           ELSE /\ lastExit' = [left |-> Len(Tail(runs[r].todo))]
                /\ runs' = RemoveAt(runs, r)
                /\ lastEvent' = Event(id, "dmError")
                /\ UNCHANGED <<isProcessingMessage, outbox>>
    /\ UNCHANGED <<world, auxVars, classifierVars, processedMessages, menuVars, storeVars, trackerVars, queue,
                   processing, evals, remoteCalls>>

\* handleLeadResponse: the reply to the sister's direct message is sent, or
\* the send fails and the error leaves the loop through the outer catch
DmSend(r, ok) ==
    /\ runs[r].pc = "dmSend"
    /\ LET id == Current(runs[r])
           m == Inbox[id]
       IN  IF ok
           THEN /\ outbox' = [outbox EXCEPT ![id] = @ + 1]
                /\ runs' = Continue(r)
                /\ lastEvent' = Event(id, "dmSent")
                /\ UNCHANGED <<isProcessingMessage, lastExit>>
           ELSE /\ Exit(r, Tail(runs[r].todo))
                /\ lastEvent' = Event(id, "dmError")
                /\ UNCHANGED outbox
    /\ UNCHANGED <<world, auxVars, classifierVars, processedMessages, menuVars, storeVars, trackerVars, queue,
                   processing, evals, remoteCalls>>

Answers == {RemoteLead, RemoteUnsure}

Next ==
    \/ StartMenu
    \/ Upsert
    \/ \E r \in DOMAIN runs : LoopStep(r)
    \/ \E r \in DOMAIN runs : Finally(r)
    \/ \E r \in DOMAIN runs : \E metaOk, lookupOk \in BOOLEAN : GroupMetadata(r, metaOk, lookupOk)
    \/ \E r \in DOMAIN runs : \E mode \in BackendModes : \E a1, a2 \in Answers :
            AnalyzeText(r, mode, a1, a2)
    \/ \E r \in DOMAIN runs : \E saveOk \in BOOLEAN : CreateLead(r, saveOk)
    \/ \E r \in DOMAIN runs : \E okSet \in SUBSET (1..batchSize) : SendBatch(r, okSet)
    \/ \E r \in DOMAIN runs : \E ok \in BOOLEAN : DmSend(r, ok)

Spec == Init /\ [][Next]_vars

\* one step of a handler that is in progress: the loop goes on, or a call
\* to the group chat, the lead store or the transport returns or fails
HandlerStep ==
    \E r \in DOMAIN runs :
        \/ LoopStep(r)
        \/ Finally(r)
        \/ \E metaOk, lookupOk \in BOOLEAN : GroupMetadata(r, metaOk, lookupOk)
        \/ \E saveOk \in BOOLEAN : CreateLead(r, saveOk)
        \/ \E okSet \in SUBSET (1..batchSize) : SendBatch(r, okSet)
        \/ \E ok \in BOOLEAN : DmSend(r, ok)

\* no handler is waiting for analyzeText
AnalysisReturned == \A r \in DOMAIN runs : runs[r].pc # "analyzeText"

\* every call the handler awaits returns or fails, and the handler goes on:
\* no handler waits for analyzeText for ever, and a step that stays
\* possible is taken
SpecLive == Spec /\ WF_vars(HandlerStep) /\ []<>AnalysisReturned


(***************************************************************************)
(* The bot with a clock.  Time passes between any two steps; the history   *)
(* notes when the transport was called for each queued reply, and how many *)
(* greetings the menu has sent to each chat during the day.                *)
(***************************************************************************)
retryDelay == 2000

\* the acknowledgement cooldown of the design: 60 minutes
AckCooldown == 3600000

MaxGreetings == 3

\* time passes: d milliseconds, once for each length
Tick(d) ==
    /\ clock < d
    /\ clock' = clock + d
    /\ UNCHANGED <<world, attempts, lastRound, lastAck, greetings, detectorVars, connectionVars, alertVars, partVars,
                   classifierVars, handlerVars, menuVars, storeVars, trackerVars, queueVars,
                   historyVars>>

\* the drain, with the time of the round and of the replies it delivers noted
TimedSendBatch(r, okSet) ==
    /\ ProcessBatch(r, okSet)
    /\ lastRound' = Some(clock)
    /\ lastAck' = [c \in Chats |->
                    IF \E j \in okSet \cap DOMAIN Taken : Taken[j].to = c THEN Some(clock)
                    ELSE lastAck[c]]
    /\ UNCHANGED <<clock, attempts, greetings, detectorVars, connectionVars, alertVars, partVars>>

\* the drain, with the transport calls of the round counted
CountedSendBatch(r, okSet) ==
    /\ ProcessBatch(r, okSet)
    /\ attempts' = [mid \in MsgIds |->
                        attempts[mid] + Cardinality({j \in DOMAIN Taken : Taken[j].mid = mid})]
    /\ UNCHANGED <<clock, lastRound, lastAck, greetings, detectorVars, connectionVars, alertVars, partVars>>

\* getGroupId: the chats of the bot whose subject is, or contains, the name
GroupIds(groupName) == { c \in {GroupA, GroupB} : GroupSubject(c) = groupName }

\* menu option 1, Send Greetings: to the sister, or to every group of
\* groupsToMonitor the bot is in; a send that fails is logged
SendGreetings(target, ok) ==
    /\ botState = "monitoring"
    /\ LET to == IF target = "1" THEN {SISTER}
                 ELSE UNION { GroupIds(group) : group \in groupsToMonitor }
       IN  /\ \A c \in to : greetings[c] < MaxGreetings
           /\ greetings' = [c \in Chats |-> greetings[c] + (IF c \in to /\ ok THEN 1 ELSE 0)]
           /\ lastEvent' = Event(0, IF ok THEN "greeted" ELSE "greetingFailed")
    /\ UNCHANGED <<world, clock, attempts, lastRound, lastAck, detectorVars, connectionVars, alertVars, partVars,
                   classifierVars, handlerVars, menuVars, storeVars, trackerVars, queueVars,
                   evals, remoteCalls, lastExit>>

InitTimed ==
    /\ world = "pairs"
    /\ sample = TextEmpty
    /\ verdict = NoVerdict
    /\ BotInit

\* the group chat, the backend and the state directory work; the transport
\* may fail on any send
NextTimed ==
    \/ StartMenu
    \/ Upsert
    \/ \E r \in DOMAIN runs : LoopStep(r)
    \/ \E r \in DOMAIN runs : Finally(r)
    \/ \E r \in DOMAIN runs : GroupMetadata(r, TRUE, TRUE)
    \/ \E r \in DOMAIN runs : \E a1, a2 \in Answers : AnalyzeText(r, "ok", a1, a2)
    \/ \E r \in DOMAIN runs : CreateLead(r, TRUE)
    \/ \E r \in DOMAIN runs : \E okSet \in SUBSET (1..batchSize) : TimedSendBatch(r, okSet)
    \/ \E d \in {retryDelay, AckCooldown} : Tick(d)

SpecTimed == InitTimed /\ [][NextTimed]_vars

\* the same chat without a clock: the group chat, the state directory and
\* the transport may fail, and the transport calls are counted
NextCounted ==
    \/ StartMenu
    \/ Upsert
    \/ \E r \in DOMAIN runs : LoopStep(r)
    \/ \E r \in DOMAIN runs : Finally(r)
    \/ \E r \in DOMAIN runs : \E metaOk, lookupOk \in BOOLEAN : GroupMetadata(r, metaOk, lookupOk)
    \/ \E r \in DOMAIN runs : \E a1, a2 \in Answers : AnalyzeText(r, "ok", a1, a2)
    \/ \E r \in DOMAIN runs : \E saveOk \in BOOLEAN : CreateLead(r, saveOk)
    \/ \E r \in DOMAIN runs : \E okSet \in SUBSET (1..batchSize) : CountedSendBatch(r, okSet)

SpecCounted == InitTimed /\ [][NextCounted]_vars

\* the menu on its own, with the clock
InitMenu ==
    /\ world = "pairs"
    /\ sample = TextEmpty
    /\ verdict = NoVerdict
    /\ BotInit

NextMenu ==
    \/ StartMenu
    \/ \E d \in {retryDelay, AckCooldown} : Tick(d)
    \/ \E target \in {"1", "2"} : \E ok \in BOOLEAN : SendGreetings(target, ok)

SpecMenu == InitMenu /\ [][NextMenu]_vars

(***************************************************************************)
(* The detector on its own, with the clock: fastAnalysis, detailedAnalysis *)
(* and analyzeText are called with any text, in any condition of the       *)
(* backend.  The detector's cache is created empty by the constructor and  *)
(* is read and written by none of its methods: it is not a variable here.  *)
(***************************************************************************)
cacheTimeout == 300000

\* the answers of a backend that also sends content with fields missing
DetectorAnswers == Answers \cup {RemotePartial}

\* fastAnalysis(text) and detailedAnalysis(text): the parsed content of the
\* backend's answer, or an exception
RemoteAnalysis(resp) ==
    IF Throws(resp) THEN [outcome |-> "throws"]
    ELSE [outcome |-> "returns", res |-> resp.analysis]

\* one call of fastAnalysis or detailedAnalysis that comes back
CallRemoteAnalysis(which, text, mode, answer) ==
    /\ mode # "hang"
    /\ sample' = text
    /\ lastEvent' = [id |-> 0, what |-> which, calls |-> 1, mode |-> mode,
                     result |-> RemoteAnalysis(Response(mode, answer))]
    /\ remoteAt' = IF mode = "ok" THEN [remoteAt EXCEPT ![text] = Some(clock)] ELSE remoteAt
    /\ UNCHANGED <<world, timeVars, connectionVars, alertVars, partVars, verdict, handlerVars, menuVars, storeVars,
                   trackerVars, queueVars, evals, remoteCalls, lastExit>>

\* one call of analyzeText that comes back
CallAnalyzeText(text, sender, mode, a1, a2) ==
    LET result == analyzeText(text, sender, Response(mode, a1), Response(mode, a2))
    IN  /\ ~result.pending
        /\ sample' = text
        /\ lastEvent' = [id |-> 0, what |-> "analyzeText", calls |-> result.calls, mode |-> mode,
                         result |-> [outcome |-> "returns", res |-> result.res]]
        /\ remoteAt' = IF result.calls > 0 /\ mode = "ok"
                       THEN [remoteAt EXCEPT ![text] = Some(clock)] ELSE remoteAt
        /\ UNCHANGED <<world, timeVars, connectionVars, alertVars, partVars, verdict, handlerVars, menuVars, storeVars,
                       trackerVars, queueVars, evals, remoteCalls, lastExit>>

InitDetector ==
    /\ world = "dedup"
    /\ sample = TextEmpty
    /\ verdict = NoVerdict
    /\ BotInit

NextDetector ==
    \/ \E which \in {"fastAnalysis", "detailedAnalysis"} : \E text \in DetectorTexts :
       \E mode \in BackendModes : \E answer \in DetectorAnswers :
            CallRemoteAnalysis(which, text, mode, answer)
    \/ \E text \in DetectorTexts : \E sender \in {SISTER, ORDINARY} :
       \E mode \in {"ok", "network_error"} : \E a1 \in DetectorAnswers : \E a2 \in Answers :
            CallAnalyzeText(text, sender, mode, a1, a2)
    \/ \E d \in {retryDelay, cacheTimeout} : Tick(d)

SpecDetector == InitDetector /\ [][NextDetector]_vars

(***************************************************************************)
(* The connection.update handler of startWhatsAppBot.                      *)
(***************************************************************************)
MaxSockets == 6

\* DisconnectReason.loggedOut
loggedOut == 401

\* status codes of DisconnectReason: loggedOut, forbidden, connectionLost
\* and timedOut, multideviceMismatch, connectionClosed, connectionReplaced,
\* badSession, unavailableService, restartRequired
StatusCodes == {401, 403, 408, 411, 428, 440, 500, 503, 515}

\* lastDisconnect.error: none, an error that is no Boom, or a Boom with its
\* output.statusCode and output.payload.message
NoError == [kind |-> "none"]

PlainError == [kind |-> "error"]

BoomError(statusCode, message) == [kind |-> "boom", statusCode |-> statusCode, message |-> message]

CloseErrors ==
    {NoError, PlainError}
        \cup { BoomError(code, message) : code \in StatusCodes, message \in {"conflict", "other"} }

\* lastDisconnect?.error?.output?.payload?.message === 'conflict'
isConflict(error) == error.kind = "boom" /\ error.message = "conflict"

\* a test that reconnects only after an error it knows
shouldReconnectBoomOnly(error) == error.kind = "boom" /\ error.statusCode # loggedOut

\* (error instanceof Boom) ? statusCode !== DisconnectReason.loggedOut : true
shouldReconnect(error) == IF error.kind = "boom" THEN error.statusCode # loggedOut ELSE TRUE

\* connection.update with connection 'close'
ConnectionClose(error) ==
    /\ connection # "exited"
    /\ IF isConflict(error)
       THEN /\ connection' = "exited"
            /\ UNCHANGED sockets
       ELSE IF shouldReconnect(error)
       THEN /\ sockets < MaxSockets
            /\ sockets' = sockets + 1
            /\ connection' = "connecting"
       ELSE /\ connection' = "exited"
            /\ UNCHANGED sockets
    /\ lastEvent' = [id |-> 0, what |-> "close", error |-> error]
    /\ UNCHANGED <<world, timeVars, detectorVars, alertVars, partVars, classifierVars, handlerVars, menuVars, storeVars,
                   trackerVars, queueVars, evals, remoteCalls, lastExit>>

\* connection.update with connection 'open'
ConnectionOpen ==
    /\ connection = "connecting"
    /\ connection' = "open"
    /\ lastEvent' = [id |-> 0, what |-> "open"]
    /\ UNCHANGED <<world, timeVars, detectorVars, alertVars, partVars, sockets, classifierVars, handlerVars, menuVars,
                   storeVars, trackerVars, queueVars, evals, remoteCalls, lastExit>>

InitConnection ==
    /\ world = "dedup"
    /\ sample = TextEmpty
    /\ verdict = NoVerdict
    /\ BotInit

NextConnection ==
    \/ \E error \in CloseErrors : ConnectionClose(error)
    \/ ConnectionOpen

SpecConnection == InitConnection /\ [][NextConnection]_vars

(***************************************************************************)
(* The classifiers on their own: quickPatternCheck and isLeadMessage are   *)
(* applied to a text built from phrases.                                   *)
(***************************************************************************)
MaxPhrases == 2

Phrases ==
    { << Word("name", "colon"), Word("Ramesh", "comma") >>,
      << Word("phone", "colon"), Num("9876543210", 0, 10, "comma") >>,
      << Word("loan", "sp") >>,
      << Word("amount", "sp"), Num("150000", 150000, 6, "comma") >>,
      << Word("amount", "sp"), Num("60000", 60000, 5, "comma") >>,
      << Word("amount", "sp"), NumK("50", 50, 2, "comma") >>,
      << Word("urgent", "comma") >>,
      << Word("area", "sp"), Word("Jayanagar", "comma") >>,
      << Word("new", "sp"), Word("customer", "comma") >>,
      << Word("good", "sp"), Word("morning", "comma") >>,
      << Word("pan", "sp"), Tok("ABCDE1234F", "mixed", 0, 10, FALSE, "comma") >>,
      << Word("for", "sp"), Word("surgery", "comma") >> }

RECURSIVE TextsOf(_)
TextsOf(n) ==
    IF n = 0 THEN { << >> }
    ELSE LET shorter == TextsOf(n - 1)
         IN  shorter \cup { t \o ph : t \in shorter, ph \in Phrases }

Samples ==
    TextsOf(MaxPhrases)
        \cup {TextScenario, TextFollowUp, TextGreeting, TextOther, TextThanks}

InitClassify ==
    /\ world = "dedup"
    /\ sample \in Samples
    /\ verdict = NoVerdict
    /\ BotInit

CallQuickPatternCheck ==
    /\ verdict.quick = None
    /\ verdict' = [verdict EXCEPT !.quick = Some(quickPatternCheck(sample))]
    /\ UNCHANGED <<world, auxVars, sample, handlerVars, menuVars, storeVars, trackerVars, queueVars,
                   historyVars>>

CallIsLeadMessage ==
    /\ verdict.message = None
    /\ verdict' = [verdict EXCEPT !.message = Some(isLeadMessage(sample))]
    /\ UNCHANGED <<world, auxVars, sample, handlerVars, menuVars, storeVars, trackerVars, queueVars,
                   historyVars>>

NextClassify == CallQuickPatternCheck \/ CallIsLeadMessage

SpecClassify == InitClassify /\ [][NextClassify]_vars

(***************************************************************************)
(* The lead store on its own: the operations of LeadManager are called in  *)
(* any order, with any data and patch.                                     *)
(***************************************************************************)
MaxMutations == 3

\* data of createLead: amounts around the thresholds, the urgency flag, and
\* data that carries properties of its own for the record's fixed ones
StoreInputs ==
    { [amount |-> None, isUrgent |-> None],
      [amount |-> Some(50000), isUrgent |-> None],
      [amount |-> Some(60000), isUrgent |-> None],
      [amount |-> Some(100000), isUrgent |-> None],
      [amount |-> Some(150000), isUrgent |-> None],
      [amount |-> None, isUrgent |-> Some(TRUE)],
      [amount |-> None, isUrgent |-> None, id |-> 1, status |-> "Closed",
       category |-> "High", history |-> << >>] }

Patches == { [status |-> "Closed"], [status |-> "Archived"], [id |-> 1], [history |-> << >>] }

StatusInputs == {"In Progress", "Closed", "Archived"}

\* keys handed to the operations: the keys of the store and one it never has
Keys == DOMAIN leads \cup {0}

\* the number of records the store has written: one for every history entry
RECURSIVE Mutations(_)
Mutations(all) ==
    IF all = << >> THEN 0 ELSE Len(Head(all).history) + Mutations(Tail(all))

StoreCreate(data, saveOk) ==
    /\ Mutations(leads) < MaxMutations
    /\ leads' = Append(leads, createLead(data, 0))
    /\ stored' = IF saveState(saveOk) = "true" THEN leads' ELSE stored
    /\ lastEvent' = Event(NewKey, IF saveState(saveOk) = "true" THEN "created" ELSE "saveError")
    /\ UNCHANGED <<world, auxVars, classifierVars, handlerVars, menuVars, trackerVars,
                   queueVars, evals, remoteCalls, lastExit>>

\* an update that writes the leads out before it looks the lead up
UpdateLeadSaveFirst(key, updates, saveOk) ==
    /\ IF key \notin DOMAIN leads
       THEN /\ lastEvent' = Event(key, "NotFound")
            /\ stored' = leads
            /\ UNCHANGED leads
       ELSE /\ Mutations(leads) < MaxMutations
            /\ leads' = [leads EXCEPT ![key] = updateLead(@, updates)]
            /\ stored' = IF saveOk THEN leads' ELSE stored
            /\ lastEvent' = Event(key, IF saveOk THEN "updated" ELSE "saveError")
    /\ UNCHANGED <<world, auxVars, classifierVars, handlerVars, menuVars, trackerVars,
                   queueVars, evals, remoteCalls, lastExit>>

\* updateLead(id, updates): not found, or the record is replaced and saved
UpdateLead(key, updates, saveOk) ==
    /\ IF key \notin DOMAIN leads
       THEN /\ lastEvent' = Event(key, "NotFound")
            /\ UNCHANGED storeVars
       ELSE /\ Mutations(leads) < MaxMutations
            /\ leads' = [leads EXCEPT ![key] = updateLead(@, updates)]
            /\ stored' = IF saveState(saveOk) = "true" THEN leads' ELSE stored
            /\ lastEvent' = Event(key, IF saveState(saveOk) = "true" THEN "updated" ELSE "saveError")
    /\ UNCHANGED <<world, auxVars, classifierVars, handlerVars, menuVars, trackerVars,
                   queueVars, evals, remoteCalls, lastExit>>

\* assignLead(id, assignee)
AssignLead(key, assignee, saveOk) == UpdateLead(key, [assignee |-> assignee], saveOk)

\* updateStatus(id, status)
UpdateStatus(key, status, saveOk) ==
    IF status \notin statuses
    THEN /\ lastEvent' = Event(key, "InvalidStatus")
         /\ UNCHANGED <<world, auxVars, classifierVars, handlerVars, menuVars, storeVars,
                        trackerVars, queueVars, evals, remoteCalls, lastExit>>
    ELSE UpdateLead(key, [status |-> status], saveOk)

\* getLeadStats(): the event carries what it returned
GetLeadStats ==
    /\ lastEvent' = [id |-> 0, what |-> "stats", value |-> getLeadStats(leads)]
    /\ UNCHANGED <<world, auxVars, classifierVars, handlerVars, menuVars, storeVars, trackerVars,
                   queueVars, evals, remoteCalls, lastExit>>

InitStore ==
    /\ world = "dedup"
    /\ sample = TextEmpty
    /\ verdict = NoVerdict
    /\ BotInit

NextStore ==
    \/ \E data \in StoreInputs : \E saveOk \in BOOLEAN : StoreCreate(data, saveOk)
    \/ \E key \in Keys : \E updates \in Patches : \E saveOk \in BOOLEAN :
            UpdateLead(key, updates, saveOk)
    \/ \E key \in Keys : \E saveOk \in BOOLEAN : AssignLead(key, "asha", saveOk)
    \/ \E key \in Keys : \E status \in StatusInputs : \E saveOk \in BOOLEAN :
            UpdateStatus(key, status, saveOk)
    \/ GetLeadStats

SpecStore == InitStore /\ [][NextStore]_vars

(***************************************************************************)
(* The lead store with calls in flight.  createLead and updateLead run     *)
(* without a pause from the change of the map to the end of saveState,     *)
(* whose file operations are all synchronous; the call is suspended at     *)
(* await this.saveLeads() and returns when it is resumed.  Other calls     *)
(* begin in between.  The state directory works.                           *)
(***************************************************************************)
Call(op, key) == [op |-> op, key |-> key]

\* a createLead whose write is still to come when the call is suspended
BeginCreateLeadUnwritten(data) ==
    /\ Mutations(leads) < MaxMutations
    /\ leads' = Append(leads, createLead(data, 0))
    /\ UNCHANGED stored
    /\ inFlight' = inFlight \cup {Call("createLead", NewKey)}
    /\ lastEvent' = Event(NewKey, "suspended")
    /\ UNCHANGED <<world, timeVars, detectorVars, connectionVars, alertVars, sending, limiterVars, classifierVars,
                   handlerVars, menuVars, trackerVars, queueVars, evals, remoteCalls, lastExit>>

\* createLead, down to its await
BeginCreateLead(data) ==
    /\ Mutations(leads) < MaxMutations
    /\ leads' = Append(leads, createLead(data, 0))
    /\ stored' = IF saveState(TRUE) = "true" THEN leads' ELSE stored
    /\ inFlight' = inFlight \cup {Call("createLead", NewKey)}
    /\ lastEvent' = Event(NewKey, "suspended")
    /\ UNCHANGED <<world, timeVars, detectorVars, connectionVars, alertVars, sending, limiterVars, classifierVars,
                   handlerVars, menuVars, trackerVars, queueVars, evals, remoteCalls, lastExit>>

\* updateLead, down to its await; a key the map does not have rejects the call
BeginUpdateLead(key, updates) ==
    /\ IF key \notin DOMAIN leads
       THEN /\ lastEvent' = Event(key, "NotFound")
            /\ UNCHANGED <<storeVars, inFlight>>
       ELSE /\ Mutations(leads) < MaxMutations
            /\ Call("updateLead", key) \notin inFlight
            /\ leads' = [leads EXCEPT ![key] = updateLead(@, updates)]
            /\ stored' = IF saveState(TRUE) = "true" THEN leads' ELSE stored
            /\ inFlight' = inFlight \cup {Call("updateLead", key)}
            /\ lastEvent' = Event(key, "suspended")
    /\ UNCHANGED <<world, timeVars, detectorVars, connectionVars, alertVars, sending, limiterVars, classifierVars,
                   handlerVars, menuVars, trackerVars, queueVars, evals, remoteCalls, lastExit>>

\* a suspended call is resumed and returns its record
ReturnLead(call) ==
    /\ call \in inFlight
    /\ inFlight' = inFlight \ {call}
    /\ lastEvent' = Event(call.key, "returned")
    /\ UNCHANGED <<world, timeVars, detectorVars, connectionVars, alertVars, sending, limiterVars, classifierVars,
                   handlerVars, menuVars, storeVars, trackerVars, queueVars, evals, remoteCalls,
                   lastExit>>

InitFlight ==
    /\ world = "dedup"
    /\ sample = TextEmpty
    /\ verdict = NoVerdict
    /\ BotInit

NextFlight ==
    \/ \E data \in StoreInputs : BeginCreateLead(data)
    \/ \E key \in Keys : \E updates \in Patches : BeginUpdateLead(key, updates)
    \/ \E call \in inFlight : ReturnLead(call)

SpecFlight == InitFlight /\ [][NextFlight]_vars

(***************************************************************************)
(* The message queue on its own.  add() may be called at any time, also    *)
(* while process() is suspended at await Promise.all(...).  The calls of   *)
(* sendMessage of one batch are started together; each settles on its own, *)
(* and a failed one pushes its message back while it has retries left.     *)
(* process() goes on when all the sends of the batch have settled.         *)
(***************************************************************************)
InQueue(id) == \E j \in DOMAIN queue : queue[j].mid = id

\* the message of this id has not been handed to add()
NotAdded(id) == attempts[id] = 0 /\ ~InQueue(id)

\* one turn of the loop of process(): the batch is spliced from the queue q
\* and sendMessage is called for each of its messages, down to its await
StartBatch(q) ==
    LET n == IF Len(q) < batchSize THEN Len(q) ELSE batchSize
    IN  /\ queue' = SubSeq(q, n + 1, Len(q))
        /\ sending' = { q[j] : j \in 1..n }
        /\ attempts' = [mid \in MsgIds |->
                            attempts[mid] + Cardinality({j \in 1..n : q[j].mid = mid})]

\* add(message): push, and process() unless a drain is running
Add(id) ==
    /\ NotAdded(id)
    /\ LET q == Append(queue, QueueEntry(GroupA, "Checking team", id))
       IN  IF ~processing
           THEN /\ processing' = TRUE
                /\ StartBatch(q)
           ELSE /\ queue' = q
                /\ UNCHANGED <<processing, sending, attempts>>
    /\ lastEvent' = Event(id, IF processing THEN "queued" ELSE "added")
    /\ UNCHANGED <<world, clock, lastRound, lastAck, greetings, detectorVars, connectionVars,
                   alertVars, inFlight, limiterVars, classifierVars, handlerVars, menuVars, storeVars,
                   trackerVars, outbox, evals, remoteCalls, lastExit>>

\* sock.sendMessage returns or fails for one message of the batch
SendSettles(entry, ok) ==
    /\ entry \in sending
    /\ sending' = sending \ {entry}
    /\ outbox' = IF ok THEN [outbox EXCEPT ![entry.mid] = @ + 1] ELSE outbox
    /\ queue' = IF ~ok /\ MayRetry(entry) THEN Append(queue, Retry(entry)) ELSE queue
    /\ lastEvent' = Event(entry.mid, IF ok THEN "sent" ELSE "failed")
    /\ UNCHANGED <<world, timeVars, detectorVars, connectionVars, alertVars, inFlight,
                   limiterVars, classifierVars, handlerVars, menuVars, storeVars, trackerVars, processing,
                   evals, remoteCalls, lastExit>>

\* a process() that sends one batch and ends
ResumeProcessOnce ==
    /\ processing
    /\ sending = { }
    /\ processing' = FALSE
    /\ lastEvent' = Event(0, "drained")
    /\ UNCHANGED <<queue, sending, attempts>>
    /\ UNCHANGED <<world, clock, lastRound, lastAck, greetings, detectorVars, connectionVars,
                   alertVars, inFlight, limiterVars, classifierVars, handlerVars, menuVars, storeVars,
                   trackerVars, outbox, evals, remoteCalls, lastExit>>

\* Promise.all has resolved: the loop of process() takes the next batch, or
\* ends with processing = false when the queue is empty
ResumeProcess ==
    /\ processing
    /\ sending = { }
    /\ IF queue # << >>
       THEN /\ StartBatch(queue)
            /\ lastEvent' = Event(0, "nextBatch")
            /\ UNCHANGED processing
       ELSE /\ processing' = FALSE
            /\ lastEvent' = Event(0, "drained")
            /\ UNCHANGED <<queue, sending, attempts>>
    /\ UNCHANGED <<world, clock, lastRound, lastAck, greetings, detectorVars, connectionVars,
                   alertVars, inFlight, limiterVars, classifierVars, handlerVars, menuVars, storeVars,
                   trackerVars, outbox, evals, remoteCalls, lastExit>>

InitQueue ==
    /\ world = "dedup"
    /\ sample = TextEmpty
    /\ verdict = NoVerdict
    /\ BotInit

NextQueue ==
    \/ \E id \in MsgIds : Add(id)
    \/ \E entry \in sending : \E ok \in BOOLEAN : SendSettles(entry, ok)
    \/ ResumeProcess

\* every call of the transport returns or fails, and a resolved promise
\* resumes the function that awaits it
SpecQueue ==
    /\ InitQueue
    /\ [][NextQueue]_vars
    /\ WF_vars(\E entry \in sending : \E ok \in BOOLEAN : SendSettles(entry, ok))
    /\ WF_vars(ResumeProcess)

(***************************************************************************)
(* The rate limiter on its own, with the clock.  checkLimit is called for  *)
(* a key at any time; no limit is set for the key, so the default limit    *)
(* applies.  The history notes the times at which the key was allowed.     *)
(***************************************************************************)
MaxSteps == 13

\* this.defaultLimit
defaultLimit == [messages |-> 10, window |-> 60000, cooldown |-> 5000]

\* Date.now() when the bot is started: later than any window after 1970
StartTime == 600000

\* Date.now()
DateNow == StartTime + clock

LimiterKeys == {"chat"}

\* the window checkLimit creates for a key it has not seen
NewWindow == [messages |-> << >>, lastMessage |-> 0]

\* messages.filter(time => now - time < limit.window)
RECURSIVE Recent(_, _, _)
Recent(times, now, limit) ==
    IF times = << >> THEN << >>
    ELSE (IF now - Head(times) < limit.window THEN << Head(times) >> ELSE << >>)
            \o Recent(Tail(times), now, limit)

\* a check that allows the call when the window holds as many as the limit
checkLimitInclusive(window, now) ==
    LET limit == defaultLimit
        kept == [window EXCEPT !.messages = Recent(@, now, limit)]
    IN  IF now - kept.lastMessage < limit.cooldown
        THEN [ window |-> kept,
               result |-> [allowed |-> FALSE,
                           waitTime |-> limit.cooldown - (now - kept.lastMessage)] ]
        ELSE IF Len(kept.messages) > limit.messages
        THEN [ window |-> kept,
               result |-> [allowed |-> FALSE,
                           waitTime |-> limit.window - (now - kept.messages[1])] ]
        ELSE [ window |-> [messages |-> Append(kept.messages, now), lastMessage |-> now],
               result |-> [allowed |-> TRUE] ]

\* checkLimit on the window of the key: the window it leaves and what it returns
checkLimit(window, now) ==
    LET limit == defaultLimit
        kept == [window EXCEPT !.messages = Recent(@, now, limit)]
    IN  IF now - kept.lastMessage < limit.cooldown
        THEN [ window |-> kept,
               result |-> [allowed |-> FALSE,
                           waitTime |-> limit.cooldown - (now - kept.lastMessage)] ]
        ELSE IF Len(kept.messages) >= limit.messages
        THEN [ window |-> kept,
               result |-> [allowed |-> FALSE,
                           waitTime |-> limit.window - (now - kept.messages[1])] ]
        ELSE [ window |-> [messages |-> Append(kept.messages, now), lastMessage |-> now],
               result |-> [allowed |-> TRUE] ]

\* rateLimiter.checkLimit(key); the event tells whether the call has left a
\* timestamp in the window or changed lastMessage
CheckLimit(key) ==
    LET before == IF key \in DOMAIN windows THEN windows[key] ELSE NewWindow
        out == checkLimit(before, DateNow)
    IN  /\ windows' = [k \in DOMAIN windows \cup {key} |->
                            IF k = key THEN out.window ELSE windows[k]]
        /\ grants' = [k \in DOMAIN grants \cup {key} |->
                            IF k # key THEN grants[k]
                            ELSE (IF k \in DOMAIN grants THEN grants[k] ELSE << >>)
                                    \o (IF out.result.allowed THEN << DateNow >> ELSE << >>)]
        /\ lastEvent' =
                [ id |-> 0, what |-> "checkLimit", key |-> key, result |-> out.result,
                  recorded |->
                    \/ out.window.lastMessage # before.lastMessage
                    \/ \E j \in DOMAIN out.window.messages :
                            \A i \in DOMAIN before.messages :
                                before.messages[i] # out.window.messages[j] ]
        /\ UNCHANGED <<world, timeVars, detectorVars, connectionVars, alertVars, inFlight,
                       sending, classifierVars, handlerVars, menuVars, storeVars, trackerVars,
                       queueVars, evals, remoteCalls, lastExit>>

\* time passes: a cooldown, or half a cooldown once
Elapse(d) ==
    /\ clock + d <= MaxSteps * defaultLimit.cooldown
    /\ (d # defaultLimit.cooldown) => clock % defaultLimit.cooldown = 0
    /\ clock' = clock + d
    /\ UNCHANGED <<world, attempts, lastRound, lastAck, greetings, detectorVars, connectionVars,
                   alertVars, partVars, classifierVars, handlerVars, menuVars, storeVars,
                   trackerVars, queueVars, historyVars>>

InitLimiter ==
    /\ world = "dedup"
    /\ sample = TextEmpty
    /\ verdict = NoVerdict
    /\ BotInit

NextLimiter ==
    \/ \E key \in LimiterKeys : CheckLimit(key)
    \/ \E d \in {defaultLimit.cooldown, defaultLimit.cooldown \div 2} : Elapse(d)

SpecLimiter == InitLimiter /\ [][NextLimiter]_vars

(***************************************************************************)
(* Properties of the handler.                                              *)
(***************************************************************************)
LeadsOf(id) == { j \in DOMAIN leads : leads[j].mid = id }

Tracked(j) == \E c \in DOMAIN activeLeads : leads[j].id \in activeLeads[c]

SharePhone(a, b) == extractIdentifiers(a) \cap extractIdentifiers(b) # { }

Happened(what) == lastEvent'.what = what /\ lastEvent' # lastEvent

\* C1: at most one batch is in processing at any time, and an upsert event
\* that arrives while a batch is in processing is dropped whole: no message
\* of it is evaluated, marked as processed, queued or added to the running
\* batch, and nothing is created or sent for it.
OneBatchAtATime ==
    /\ [](Len(runs) <= 1)
    /\ [][Happened("dropped") =>
            UNCHANGED <<handlerVars, storeVars, trackerVars, queueVars, evals, remoteCalls>>]_vars

\* an upsert event has been dropped while a batch with messages still to
\* visit was in processing
BatchDropped ==
    /\ lastEvent.what = "dropped"
    /\ Len(runs) = 1
    /\ runs[1].todo # << >>
    /\ isProcessingMessage

\* C2: every message id passes the seen-check at most once, and yields at
\* most one lead record and at most one reply, over any sequence of batches.
AtMostOnce ==
    \A id \in MsgIds :
        /\ evals[id] <= 1
        /\ Cardinality(LeadsOf(id)) <= 1
        /\ outbox[id] <= 1

\* a message that has a lead record and a reply has been delivered again and
\* skipped
RedeliverySkipped ==
    /\ lastEvent.what = "seen"
    /\ Cardinality(LeadsOf(lastEvent.id)) = 1
    /\ outbox[lastEvent.id] = 1
    /\ evals[lastEvent.id] = 1

\* C3: once a lead with a phone number is tracked, no later lead record is
\* created from a message with the same phone number, and a reply goes to a
\* group message only if a lead record has been created from it: a follow-up
\* gets no second record and no acknowledgement.
FollowUpCreatesNothing ==
    /\ \A j, k \in DOMAIN leads :
            (j < k /\ Tracked(j)) => ~SharePhone(leads[j].message, leads[k].message)
    /\ \A id \in MsgIds :
            (IsGroup(Inbox[id]) /\ outbox[id] > 0) => LeadsOf(id) # { }

\* a message of a monitored group with the phone number of a tracked lead
\* has been taken for a follow-up: no record and no reply for it
FollowUpSkipped ==
    /\ lastEvent.what = "followUp"
    /\ \E j \in DOMAIN leads :
            /\ Tracked(j)
            /\ leads[j].mid # lastEvent.id
            /\ SharePhone(leads[j].message, Inbox[lastEvent.id].text)
    /\ LeadsOf(lastEvent.id) = { }
    /\ outbox[lastEvent.id] = 0

\* C4: a message of a group that is not on the monitored list never has a
\* lead record, a reply, a queued reply or a mark in the tracker, and its
\* conversation never enters the tracker's state.
UnmonitoredUntouched ==
    \A id \in MsgIds :
        LET m == Inbox[id] IN
        (IsGroup(m) /\ GroupSubject(m.remoteJid) \notin groupsToMonitor) =>
            /\ LeadsOf(id) = { }
            /\ outbox[id] = 0
            /\ \A j \in DOMAIN queue : queue[j].mid # id
            /\ <<id, m.remoteJid>> \notin checkedLeads
            /\ context[m.remoteJid] = << >>
            /\ activeLeads[m.remoteJid] = { }
            /\ id \notin remoteCalls

\* a lead-like message of a group that is not monitored has been skipped
UnmonitoredSkipped ==
    /\ lastEvent.what = "unmonitored"
    /\ quickPatternCheck(Inbox[lastEvent.id].text).isLead
    /\ GroupSubject(Inbox[lastEvent.id].remoteJid) \notin groupsToMonitor

\* C5: the handler of a batch ends only when it has visited every message
\* of the batch, whatever failed on the way.
BatchRunsToItsEnd == lastExit.left = 0

\* C6: when the lookup of an existing lead raises an error, the handler goes
\* on to classify the message.
LookupFailsOpen ==
    [][Happened("lookupError") =>
            \E r \in DOMAIN runs' :
                /\ runs'[r].pc = "analyzeText"
                /\ runs'[r].todo # << >>
                /\ Current(runs'[r]) = lastEvent'.id]_vars

QuickAccepts(id) == quickPatternCheck(Inbox[id].text).isLead

ClassifiedAsQuick(run) == run.leadAnalysis = quickPatternCheck(Inbox[run.analysed].text)

NoRemoteCallForRejected == \A id \in remoteCalls : QuickAccepts(id)

\* a message whose text the quick check rejects has been classified, and
\* the backend has not been called for it
RejectedClassifiedLocally ==
    /\ lastEvent.what = "notLead"
    /\ ~QuickAccepts(lastEvent.id)
    /\ lastEvent.id \notin remoteCalls
    /\ \E r \in DOMAIN runs : runs[r].analysed = lastEvent.id

\* C10: the classification of an ordinary sender's message with a labelled
\* name, a labelled phone, a loan amount and the word urgent is a lead of
\* priority High with the phone of the text, in every condition of the
\* backend.
ScenarioIsHighLead ==
    \A r \in DOMAIN runs :
        (/\ runs[r].analysed # 0
         /\ Sender(Inbox[runs[r].analysed]) = ORDINARY
         /\ Inbox[runs[r].analysed].text = TextScenario)
            => /\ runs[r].leadAnalysis.isLead
               /\ runs[r].leadAnalysis.priority = "High"
               /\ runs[r].leadAnalysis.extractedInfo.contact.phone = Some("9876543210")

(***************************************************************************)
(* Properties of the classifiers.                                          *)
(***************************************************************************)
\* the isLead property of what isLeadMessage returned, read as a condition
LeadFlag(result) == result.object /\ result.isLead

\* a field pattern of quickPatternCheck matches
QuickFieldMatches(text) ==
    \E i \in DOMAIN text :
        \/ AmountAt(text, i) \/ NameAt(text, i) \/ PhoneAt(text, i) \/ PanAt(text, i)
        \/ PurposeAt(text, i) \/ LoanAt(text, i) \/ LocationAt(text, i)

\* a field pattern of isLeadMessage matches
MessageFieldMatches(text) ==
    \E i \in DOMAIN text :
        \/ LpNameAt(text, i) \/ PhoneAt(text, i) \/ LpEmailAt(text, i) \/ PanAt(text, i)
        \/ LpAmountAt(text, i) \/ LpTenureAt(text, i) \/ LpEmiAt(text, i)
        \/ LpTopupAt(text, i) \/ LpBranchAt(text, i) \/ LpCityAt(text, i)

\* the signal categories of quickPatternCheck that the text matches
QuickCategories(text) ==
    { c \in {"amount", "name", "phone", "pan", "purpose", "loan", "urgency", "location"} :
        \/ c = "urgency" /\ UrgencyTest(text)
        \/ \E i \in DOMAIN text :
             \/ c = "amount" /\ AmountAt(text, i)
             \/ c = "name" /\ NameAt(text, i)
             \/ c = "phone" /\ PhoneAt(text, i)
             \/ c = "pan" /\ PanAt(text, i)
             \/ c = "purpose" /\ PurposeAt(text, i)
             \/ c = "loan" /\ LoanAt(text, i)
             \/ c = "location" /\ LocationAt(text, i) }

\* C11: a classifier reports a lead only with a confidence of at least 0.3,
\* quickPatternCheck and isLeadMessage alike.
LeadOnlyAboveThreshold ==
    /\ verdict.quick # None =>
            (verdict.quick[1].isLead => verdict.quick[1].confidence >= 30)
    /\ verdict.message # None =>
            (LeadFlag(verdict.message[1]) =>
                verdict.message[1].leadDetails.confidence >= 30)

TwoSignalsHigh ==
    (verdict.quick # None /\ Cardinality(QuickCategories(sample)) >= 2)
        => /\ verdict.quick[1].confidence >= 60
           /\ verdict.quick[1].priority = "High"

\* C14: the extracted amount is the number of the text, times 1000 only
\* when the number is followed by k.
AmountAsWritten ==
    (verdict.quick # None /\ verdict.quick[1].extractedInfo.financial.amount # None)
        => LET a == FirstPos({i \in DOMAIN sample : AmountAt(sample, i)})
               written == sample[a + 1]
           IN  verdict.quick[1].extractedInfo.financial.amount
                    = Some(IF written.k THEN written.n * 1000 ELSE written.n)

(***************************************************************************)
(* Properties of the lead store.                                           *)
(***************************************************************************)
IsPrefix(a, b) == Len(a) <= Len(b) /\ SubSeq(b, 1, Len(a)) = a

Created == [action |-> "Created", details |-> "Lead created"]

\* C15: a lead's history is append-only.  A new lead has exactly the one
\* Created entry; a step that changes a lead appends exactly one Updated
\* entry behind the entries it had, whatever the patch holds; no step
\* removes a lead or touches an earlier entry.
HistoryAppendOnly ==
    [][/\ \A k \in DOMAIN leads :
            /\ k \in DOMAIN leads'
            /\ IsPrefix(leads[k].history, leads'[k].history)
            /\ leads'[k] # leads[k] =>
                    /\ Len(leads'[k].history) = Len(leads[k].history) + 1
                    /\ leads'[k].history[Len(leads'[k].history)].action = "Updated"
       /\ (lastEvent' # lastEvent /\ lastEvent'.what = "updated") =>
                Len(leads'[lastEvent'.id].history) = Len(leads[lastEvent'.id].history) + 1
       /\ \A k \in DOMAIN leads' \ DOMAIN leads : leads'[k].history = << Created >>]_vars

\* a lead created from data with a history of its own has been updated
\* with a patch that holds a history: both entries are there
HistoryKeptUnderPatch ==
    \E k \in DOMAIN leads :
        /\ Len(leads[k].history) = 2
        /\ leads[k].history[1] = Created
        /\ leads[k].history[2].action = "Updated"
        /\ DOMAIN leads[k].history[2].details = {"history"}

\* C16: no two stored leads have the same id, and the id of every stored
\* lead is the key generated for it at creation.
IdsUniqueAndFixed ==
    \A k \in DOMAIN leads :
        /\ leads[k].id = k
        /\ \A j \in DOMAIN leads : j # k => leads[j].id # leads[k].id

\* C17: the status of every stored lead is one of the four allowed ones.
StatusAllowed == \A k \in DOMAIN leads : leads[k].status \in statuses

\* an update, assignment or status change has been called with a key the
\* store does not have
UnknownKeyCalled == lastEvent' # lastEvent /\ lastEvent'.id = 0 /\ lastEvent'.what # "stats"

\* C18 as stated: a call with a key the store does not have fails with the
\* not-found error and leaves the leads and what is persisted unchanged.
UnknownIdNotFound ==
    [][UnknownKeyCalled => (lastEvent'.what = "NotFound" /\ UNCHANGED storeVars)]_vars

\* C18: a call with a key the store does not have fails - with the
\* not-found error, or with the invalid-status error when updateStatus is
\* given a status that is not allowed - and leaves the leads and what is
\* persisted unchanged.
UnknownIdRejected ==
    [][UnknownKeyCalled =>
            (lastEvent'.what \in {"NotFound", "InvalidStatus"} /\ UNCHANGED storeVars)]_vars

\* an update of a key the store does not have has failed, while the store
\* holds a lead that is not persisted
UnknownIdLeftStore ==
    /\ lastEvent = Event(0, "NotFound")
    /\ leads # << >>
    /\ stored # leads

\* C19: a new lead has status New, and category High if its data has the
\* urgency flag or an amount above 100000, Medium if not High and the amount
\* is above 50000, Low otherwise.
CreateCategorises ==
    [][\A k \in DOMAIN leads' \ DOMAIN leads :
            LET lead == leads'[k]
                amount == IF lead.amount = None THEN 0 ELSE lead.amount[1]
            IN  /\ lead.status = "New"
                /\ lead.category =
                        IF lead.isUrgent = Some(TRUE) \/ amount > 100000 THEN "High"
                        ELSE IF amount > 50000 THEN "Medium"
                        ELSE "Low"]_vars

\* leads with the amounts 60000, 100000 and 50000 have been created
ThresholdLeads ==
    /\ \E k \in DOMAIN leads : leads[k].amount = Some(60000) /\ leads[k].category = "Medium"
    /\ \E k \in DOMAIN leads : leads[k].amount = Some(100000) /\ leads[k].category = "Medium"
    /\ \E k \in DOMAIN leads : leads[k].amount = Some(50000) /\ leads[k].category = "Low"

ClosedLeads == {k \in DOMAIN leads : leads[k].status = "Closed"}

\* C20: getLeadStats reports the conversion rate closed / total * 100, and 0
\* for a store without leads.
ConversionRateRight ==
    lastEvent.what = "stats" =>
        LET rate == lastEvent.value.conversionRate
        IN  /\ rate.den # 0
            /\ IF leads = << >> THEN rate.num = 0
               ELSE rate.num * Len(leads) = Cardinality(ClosedLeads) * 100 * rate.den

\* the statistics of a store with one closed lead among two have been read
HalfConverted ==
    /\ lastEvent.what = "stats"
    /\ Len(leads) = 2
    /\ Cardinality(ClosedLeads) = 1
    /\ lastEvent.value.conversionRate = Rate(100, 2)

(***************************************************************************)
(* Properties of sending, throttling and the remote classifier.            *)
(***************************************************************************)
\* C21: a failure to write the leads document does not end the work on the
\* lead: every createLead of the handler completes, and the lead it has
\* put into the store is tracked.
SaveFailureTolerated ==
    [][\A k \in DOMAIN leads' \ DOMAIN leads :
            /\ lastEvent'.what = "tracked"
            /\ \E c \in DOMAIN activeLeads' : leads'[k].id \in activeLeads'[c]]_vars

\* C22: the transport is called at most maxRetries + 1 = 3 times for a
\* queued reply, and a reply that has failed three times is not in the
\* queue any more.
AtMostThreeAttempts ==
    \A mid \in MsgIds :
        /\ attempts[mid] <= maxRetries + 1
        /\ attempts[mid] = maxRetries + 1 => \A j \in DOMAIN queue : queue[j].mid # mid

\* a reply has failed three times and is given up: the queue is empty
AckGivenUp ==
    /\ lastEvent.what = "ackDropped"
    /\ attempts[lastEvent.id] = 3
    /\ outbox[lastEvent.id] = 0
    /\ queue = << >>
    /\ ~processing

\* the drain of the queue is in progress and takes a step
DrainStep ==
    /\ \E r \in DOMAIN runs : runs[r].pc = "sending"
    /\ <<queue, processing, outbox>>' # <<queue, processing, outbox>>

\* C23: a reply that has failed is handed to the transport again only
\* when at least retryDelay has passed since the round in which it failed.
RetryAfterBackoff ==
    [][(DrainStep /\ \E j \in DOMAIN Taken : Taken[j].retries > 0) =>
            clock - lastRound[1] >= retryDelay]_vars

\* C24: sending the acknowledgement, failing and giving it up included,
\* leaves the lead store and the tracker as they are; the lead whose
\* acknowledgement is given up is in the store, tracked and marked.
AckFailureKeepsLead ==
    /\ [][DrainStep => UNCHANGED <<storeVars, trackerVars>>]_vars
    /\ [](lastEvent.what = "ackDropped" =>
            /\ \E j \in LeadsOf(lastEvent.id) : Tracked(j) /\ j \in DOMAIN stored
            /\ hasCheckedLead(lastEvent.id, Inbox[lastEvent.id].remoteJid))

\* an acknowledgement has been given up, and nothing was sent for its lead
AckLostLeadKept ==
    /\ lastEvent.what = "ackDropped"
    /\ outbox[lastEvent.id] = 0
    /\ \E j \in LeadsOf(lastEvent.id) : Tracked(j) /\ stored[j] = leads[j]

\* C25: an acknowledgement is delivered to a conversation only if it is the
\* first one, or 60 minutes have passed since the last one delivered to it.
AckCooldownKept ==
    [][\A mid \in MsgIds :
            outbox'[mid] > outbox[mid] =>
                LET last == lastAck[Inbox[mid].remoteJid]
                IN  last = None \/ clock - last[1] >= AckCooldown]_vars

MAX_GREETINGS_PER_DAY_IN_GROUP == 2

\* C26: no chat gets more than two greetings in a day.
GreetingCapKept == \A c \in Chats : greetings[c] <= MAX_GREETINGS_PER_DAY_IN_GROUP

\* the texts the conversation of a message held before the message came
Earlier(mid) ==
    LET all == context[Inbox[mid].remoteJid]
    IN  SubSeq(all, 1, Len(all) - 1)

\* C27: a lead record is created from a message only if none of the recent
\* messages of its conversation has a Jaccard similarity above 0.7 with it;
\* of two such messages without an identifier at most one has a record.
SimilarCreatesNothing ==
    /\ [][\A k \in DOMAIN leads' \ DOMAIN leads :
            \A j \in DOMAIN Earlier(leads'[k].mid) :
                ~Similar(leads'[k].message, Earlier(leads'[k].mid)[j])]_vars
    /\ [](\A i, j \in MsgIds :
            (/\ i # j
             /\ Inbox[i].remoteJid = Inbox[j].remoteJid
             /\ extractIdentifiers(Inbox[i].text) = { }
             /\ Similar(Inbox[i].text, Inbox[j].text))
                => (LeadsOf(i) = { } \/ LeadsOf(j) = { }))

\* a message without an identifier, in other words than a lead before it,
\* has been taken for a follow-up
SimilarSkipped ==
    /\ lastEvent.what = "followUp"
    /\ extractIdentifiers(Inbox[lastEvent.id].text) = { }
    /\ LeadsOf(lastEvent.id) = { }
    /\ \E j \in DOMAIN leads :
            /\ leads[j].message # Inbox[lastEvent.id].text
            /\ extractIdentifiers(leads[j].message) = { }
            /\ Similar(leads[j].message, Inbox[lastEvent.id].text)

\* the backend is called for a text
RemoteCallMade ==
    /\ lastEvent'.calls > 0
    /\ (lastEvent' # lastEvent \/ remoteAt' # remoteAt)

\* C28: the backend is called for a text only if it has not answered for
\* the same text during the last 5 minutes.
CachedForFiveMinutes ==
    [][("calls" \in DOMAIN lastEvent' /\ RemoteCallMade) =>
            LET last == remoteAt[sample']
            IN  last = None \/ clock - last[1] >= cacheTimeout]_vars

RequiredFields == {"isLead", "confidence", "priority", "extractedInfo", "reasoning"}

\* C29: what fastAnalysis, detailedAnalysis and analyzeText return has
\* every required field.
OnlyCompleteResults ==
    ("result" \in DOMAIN lastEvent /\ lastEvent.result.outcome = "returns") =>
        RequiredFields \subseteq DOMAIN lastEvent.result.res

\* the connection.update handler has handled a close
CloseHandled == lastEvent'.what = "close" /\ connectionVars' # connectionVars

\* the session has been invalidated: logged out, or replaced by another one
Invalidated(error) ==
    error.kind = "boom" /\ (error.statusCode = 401 \/ error.message = "conflict")

\* C30: on a close the process ends only if the session was invalidated;
\* after every other close a new connection is started.
StopsOnlyWhenInvalidated ==
    [][CloseHandled =>
            /\ connection' = "exited" => Invalidated(lastEvent'.error)
            /\ ~Invalidated(lastEvent'.error) =>
                    (connection' = "connecting" /\ sockets' = sockets + 1)]_vars

\* the process has ended on a logout, after it had reconnected on a timeout
\* and on a close without an error
EndedAfterReconnects ==
    /\ connection = "exited"
    /\ sockets = 3
    /\ lastEvent.what = "close"
    /\ lastEvent.error = BoomError(401, "other")

(***************************************************************************)
(* Properties of alerts, persistence, the queue's drain and the limiter.   *)
(***************************************************************************)
\* C31: for every newly detected lead an alert is sent to the admin: the
\* step in which the handler tracks a new lead leaves one more alert to the
\* admin for that lead's message.
AlertForEveryLead ==
    [][Happened("tracked") => alerts'[lastEvent'.id] > alerts[lastEvent'.id]]_vars

\* what a strict comparison of isLeadMessage's result with a boolean gives:
\* the one boolean it returns is false, and an object equals neither
StrictlyEquals(result, b) == ~result.object /\ b = FALSE

\* C32: isLeadMessage returns a plain boolean: a result that is strictly
\* true for a text the classifier takes for a lead, and strictly false for
\* a text in which no field pattern matches.
PlainBooleanResult ==
    verdict.message # None =>
        LET result == verdict.message[1]
        IN  /\ ~result.object
            /\ LeadFlag(result) => StrictlyEquals(result, TRUE)
            /\ ~MessageFieldMatches(sample) => StrictlyEquals(result, FALSE)

\* C33: with working storage the persisted leads document equals the lead
\* map whenever a call of createLead or updateLead returns and wherever
\* another operation can begin, also with several calls in flight.
PersistedIsMemory == stored = leads

\* a create and an update of the new lead are in flight at once, and a
\* third call has begun and returned meanwhile
WrittenWhileInFlight ==
    /\ Call("createLead", 1) \in inFlight
    /\ Call("updateLead", 1) \in inFlight
    /\ Len(leads) = 2
    /\ lastEvent = Event(2, "returned")
    /\ stored = leads

\* C34: a text is in the Conversation Context only when a Lead Record has
\* been created from it: a message is added after it has been confirmed as
\* a new lead and stored, and a message that is no lead is never added.
ContextOnlyAfterLead ==
    \A c \in DOMAIN context : \A i \in DOMAIN context[c] :
        \E j \in DOMAIN leads : leads[j].mid # 0 /\ leads[j].message = context[c][i]

\* C35: a Lead Record the message handler has created from a message whose
\* extracted amount is above 100000 has category High, and one whose amount
\* is above 50000 and at most 100000 has category Medium.
HandlerLeadCategorised ==
    \A j \in DOMAIN leads :
        (leads[j].mid # 0 /\ leads[j].financial.amount # None) =>
            LET amount == leads[j].financial.amount[1]
            IN  /\ amount > 100000 => leads[j].category = "High"
                /\ (amount > 50000 /\ amount <= 100000) => leads[j].category = "Medium"

\* C36: provided every send returns or fails, every message added to the
\* queue, also one added while a drain is running, is attempted at least
\* once; a running drain ends with the queue empty and processing = false;
\* and no message is in the queue while no drain is running.
QueueDrains ==
    /\ [](~processing => queue = << >>)
    /\ \A id \in MsgIds : (InQueue(id) ~> attempts[id] > 0)
    /\ processing ~> (~processing /\ queue = << >>)

\* the drain has taken, in a later turn of its loop, a message that was
\* added while the sends of the batch before were under way
AddedWhileDrainingTaken ==
    /\ lastEvent = Event(0, "nextBatch")
    /\ \E entry \in sending : entry.retries = 0 /\ attempts[entry.mid] = 1
    /\ \E id \in MsgIds : outbox[id] = 0 /\ attempts[id] = 3 /\ ~InQueue(id)

\* C37: the processing guard is released on every way out of the handler:
\* the guard is set only while a handler is in progress, a batch that has
\* been accepted leads to the guard being free again, provided every call
\* the handler awaits returns or fails, and a batch that arrives while no
\* handler is in progress is not dropped.
GuardReleased ==
    /\ [](runs = << >> => ~isProcessingMessage)
    /\ isProcessingMessage ~> ~isProcessingMessage
    /\ [][runs = << >> => (lastEvent' # Event(0, "dropped") \/ UNCHANGED lastEvent)]_vars

\* a batch has been accepted after the batch before it was ended by an
\* error that left messages unvisited
AcceptedAfterError ==
    /\ lastEvent = Event(0, "accepted")
    /\ lastExit.left > 0
    /\ Len(runs) = 1

\* C38: a message of a monitored group that arrives before the control menu
\* has set global.botState is still evaluated as a potential lead: when the
\* group's metadata has come, the handler goes on to classify the message,
\* unless the chat or the tracker fails or the tracker knows the message.
EarlyMessageEvaluated ==
    [][\A r \in DOMAIN runs :
            (/\ runs[r].pc = "groupMetadata"
             /\ botState = "undefined"
             /\ isMonitoredGroup(GroupSubject(Inbox[Current(runs[r])].remoteJid))
             /\ r \in DOMAIN runs'
             /\ runs'[r] # runs[r])
                => \/ runs'[r].pc = "analyzeText"
                   \/ lastEvent'.what \in {"metadataError", "lookupError", "checked", "followUp"}]_vars

\* C39: any two calls of checkLimit that were allowed for a key are at
\* least the cooldown apart, and at most `messages` of them lie within any
\* window; a call that is denied leaves no timestamp, leaves lastMessage as
\* it was, and reports a positive waitTime.
RateLimited ==
    /\ \A k \in DOMAIN grants :
            LET g == grants[k]
            IN  /\ \A i, j \in DOMAIN g : i < j => g[j] - g[i] >= defaultLimit.cooldown
                /\ \A i \in DOMAIN g :
                        Cardinality({ j \in DOMAIN g :
                                        g[i] <= g[j] /\ g[j] - g[i] < defaultLimit.window })
                            <= defaultLimit.messages
    /\ (lastEvent.what = "checkLimit" /\ ~lastEvent.result.allowed) =>
            /\ ~lastEvent.recorded
            /\ lastEvent.result.waitTime > 0

\* ten calls have been allowed within a window, and the call after them,
\* past the cooldown, has been denied with the time left of the window
DeniedByWindow ==
    /\ lastEvent.what = "checkLimit"
    /\ ~lastEvent.result.allowed
    /\ Len(grants["chat"]) = defaultLimit.messages
    /\ DateNow - windows["chat"].lastMessage >= defaultLimit.cooldown
    /\ lastEvent.result.waitTime = defaultLimit.window - (DateNow - grants["chat"][1])

=============================================================================
